---- MODULE Spec2Model ----
(***************************************************************************)
(* The MCP connection and execution engine of BLE2WebSvc (class MCPServer, *)
(* src/check-node-version.js:716-1054): connections, the auth gate, tool   *)
(* execution, execution subscribers, cancellation and connection teardown. *)
(***************************************************************************)
EXTENDS Naturals, Integers, Sequences, FiniteSets, TLC

(* ------------------------------ bounds -------------------------------- *)

\* client envelopes handled in one behaviour (all connections together)
MaxReq == 2
\* tool executions started in one behaviour
MaxExec == 1
\* onProgress calls made in one behaviour (all handlers together)
MaxProgress == 1
\* characters received in one behaviour (all connections together)
MaxBytes == 4
\* notifications the BLE collaborator delivers in one behaviour
MaxNotify == 1
\* discover events of the BLE adapter
MaxDiscover == 2
\* connectDevice and disconnectDevice calls
MaxCalls == 2

(* ------------------------------ values -------------------------------- *)

Conns == {"c1", "c2"}
ConnOrder == <<"c1", "c2">>

\* process.env.MCP_TOKEN || null
NoToken == "<null>"
Secret == "s3cret"
\* payload.token of an mcp/auth envelope ("" is an absent token)
Tokens == {Secret, "wrong", ""}

\* the data of a progress event
ProgressData == [kind |-> "value", v |-> "{percent}", falsy |-> FALSE]
\* the values a handler resolves with (or hands over as maybe.result);
\* falsy says what JavaScript's || makes of it
Null == [kind |-> "null", v |-> "", falsy |-> TRUE]
Zero == [kind |-> "value", v |-> "0", falsy |-> TRUE]
Obj == [kind |-> "value", v |-> "{echoed}", falsy |-> FALSE]
Values == {Zero, Obj}
\* err.message of what a handler throws
ErrMsgs == {"boom"}
ErrorResult(m) == [kind |-> "error", v |-> m, falsy |-> FALSE]

\* payload.toolId of an execute request ("" is a missing toolId)
ToolIdInputs == {"echo", "job", "nope", ""}

\* deviceId / characteristicUuid of a BLE request, as the sequence of their
\* ':'-separated segments (<<>> is an absent field)
DeviceIds == {<<"d1">>}
CharUuids == {<<"2a37">>, <<"2a38">>}
\* a device id written like a MAC address: it contains ':'
MacDeviceIds == {<<"aa", "bb">>}

\* this.subscriptions.get(socket): undefined, or a Map given as its entries
\* [key, listener]
\* peripheral.id of the peripherals in range
PeripheralIds == {"p1", "p2"}
\* the `cmd` of a legacy request as the client writes it ("": no cmd), and
\* its `id` ("": no id)
LegacyCmds == {"listDevices", "LISTDEVICES", "devices", "auth", "bogus", ""}
LegacyIds == {"", "r1"}

NoMap == [present |-> FALSE, entries |-> {}]
EmptyMap == [present |-> TRUE, entries |-> {}]

(* ----------------------------- variables ------------------------------ *)

VARIABLES
    authToken,        \* this.authToken
    tools,            \* this.tools: toolId -> {meta, handler}
    clients,          \* this.clients
    cstate,           \* each socket: "idle" (not yet accepted), "open", "broken" (it
                      \* takes no write any more, no event dispatched yet), "errored", "closed";
                      \* "gone" when the process has exited
    authed,           \* socket._mcpAuthenticated
    subscriptions,    \* this.subscriptions: socket -> Map<deviceId:charUuid, listener>
    out,              \* the envelopes written to each socket, in order
    executions,       \* this.executions: execId -> {toolId, status, result, cancelFn}
    execSubscribers,  \* this.execSubscribers: execId -> Set(sockets)
    handlers,         \* each execution's handler: its promise, pending or settled, and
                      \* the message of what it threw or rejected with ("": nothing),
                      \* and the value it resolved with (as maybe or as maybe.result)
    nprogress,        \* onProgress calls made so far
    events,           \* each execution's broadcasts, in order (also those no socket got)
    cancelOps,        \* mcp.exec.cancel requests awaiting rec.cancelFn()
    cancelCalls,      \* how often each execution's cancel capability was invoked, and failed
    bleOps,           \* mcp.ble.* requests awaiting the BLE collaborator
    bleListeners,     \* the listeners registered with the BLE collaborator
    bleCalls,         \* calls made to the BLE collaborator
    nlisten,          \* listener closures created so far
    nreq,             \* envelopes handled so far
    lastMsg,          \* the envelope handled last: [conn, type, id, payload]
    buffer,           \* each socket's `buffer` of the data handler
    reads,            \* the chunks each socket's data handler was called with, in order
    lines,            \* the records handed to _handleMessage for each socket, in order
    regResult,        \* what the last registerTool call returned or threw
    notified,         \* the listeners the BLE collaborator called with data, in order
    cleanCalls,       \* the unsubscribe calls of _cleanSubscriptions, and whether they failed
    discoveredPeripherals, \* ble-manager: the peripherals discovered, in order (their ids)
    ndiscover,        \* discover events so far
    pstate,           \* peripheral.state of each peripheral
    connectedPeripherals,  \* ble-manager: the ids it tracks as connected
    calls,            \* the connectDevice and disconnectDevice calls, in order: their
                      \* promise, how far they got, and the `once` listeners they hold
    established,      \* the peripherals for which a connectDevice succeeded through
                      \* connection and discovery and no disconnectDevice succeeded since
    activeSubscriptions,   \* HTTP server: the keys of activeSubscriptions
    httpOps,          \* HTTP server: subscribe and unsubscribe routes awaiting ble-manager
    httpRes,          \* HTTP server: the response sent last
    legacy            \* the legacy `cmd` server: sockets, flags, pending getDevices
                      \* calls, the lines written, and the request handled last (n:
                      \* its number among the requests)

connVars == <<clients, cstate, authed>>
execVars == <<executions, execSubscribers, handlers, events, nprogress>>
cancelVars == <<cancelOps, cancelCalls>>
bleVars == <<subscriptions, bleOps, bleListeners, bleCalls, nlisten>>
framerVars == <<buffer, reads, lines>>
\* what only the data handler, registerTool, the BLE collaborator's
\* notifications and _cleanSubscriptions touch
mgrVars == <<discoveredPeripherals, ndiscover, pstate, connectedPeripherals, calls,
             established>>
httpVars == <<activeSubscriptions, httpOps, httpRes>>
restVars == <<framerVars, regResult, notified, cleanCalls, mgrVars, httpVars, legacy>>
\* the state of the MCP server of the envelope protocol
mcpVars == <<authToken, tools, connVars, out, execVars, cancelVars, bleVars, nreq, lastMsg,
             framerVars, regResult, notified, cleanCalls>>
vars == <<authToken, tools, connVars, out, execVars, cancelVars, bleVars, nreq, lastMsg,
          framerVars, regResult, notified, cleanCalls, mgrVars, httpVars, legacy>>

(* ----------------------------- envelopes ------------------------------ *)

\* one written envelope; id 0 is null, execId 0 and "" are absent fields
Env(type, id, code, event, execId, data) ==
    [type |-> type, id |-> id, code |-> code, event |-> event,
     execId |-> execId, data |-> data]

ErrorEnv(id, code) == Env("mcp/error", id, code, "", 0, Null)
ResultEnv(type, id) == Env(type, id, "", "", 0, Null)
EventEnv(evtType, execId, data) == Env("mcp.tool.event", 0, "", evtType, execId, data)

\* socket.write: a destroyed socket takes nothing
Write(o, c, env) ==
    IF cstate[c] = "open" THEN [o EXCEPT ![c] = Append(@, env)] ELSE o

\* the envelope types a client sends, as written by the client
RawTypes == {"mcp/auth", "MCP/AUTH", "mcp.tools.discover", "mcp.tools.list",
             "mcp.tool.info", "mcp.tool.execute", "mcp.exec.subscribe",
             "mcp.exec.unsubscribe", "mcp.exec.status", "mcp.exec.cancel",
             "mcp.ble.devices", "mcp.ble.subscribe", "mcp.ble.unsubscribe",
             "mcp.bogus"}

\* String(msg.type).toLowerCase()
NormalizeType(t) == IF t = "MCP/AUTH" THEN "mcp/auth" ELSE t

\* the payload of a client envelope; "" and 0 are absent fields
Payload(token, toolId, execId, deviceId, characteristicUuid) ==
    [token |-> token, toolId |-> toolId, execId |-> execId,
     deviceId |-> deviceId, characteristicUuid |-> characteristicUuid]

EmptyPayload == Payload("", "", 0, <<>>, <<>>)

Msg(type, id, payload) == [type |-> type, id |-> id, payload |-> payload]

NoMsg == [conn |-> "", type |-> "", id |-> 0, payload |-> EmptyPayload]

(* ------------------------------- Init --------------------------------- *)

\* the HTTP server has sent no response yet
NoResponse == [route |-> "", deviceId |-> "", status |-> 0]

\* the legacy server before any connection
NoLegacy ==
    [open |-> [c \in Conns |-> FALSE],
     authed |-> [c \in Conns |-> FALSE],
     out |-> [c \in Conns |-> <<>>],
     ops |-> {},
     last |-> [conn |-> "", cmd |-> "", id |-> "", n |-> 0]]

\* registerTool was not called yet; else its arguments (toolDef.id, toolDef
\* and handler), and what it returned or the message of what it threw
NoResult == [id |-> "", meta |-> "", handler |-> "", returned |-> "", threw |-> ""]

\* this.tools after new Map()
NoTools == [t \in {} |-> [meta |-> "", handler |-> ""]]

\* the tools the hosting process registers before the listener starts; the
\* handler of "job" resolves with {result, cancel}, the one of "echo" with a
\* plain value
StartupTools ==
    [t \in {"echo", "job"} |->
        [meta |-> t, handler |-> IF t = "job" THEN "cancelable" ELSE "plain"]]

InitState(token, registry) ==
    /\ authToken = token
    /\ tools = registry
    /\ clients = {}
    /\ cstate = [c \in Conns |-> "idle"]
    /\ authed = [c \in Conns |-> FALSE]
    /\ subscriptions = [c \in Conns |-> NoMap]
    /\ out = [c \in Conns |-> <<>>]
    /\ executions = <<>>
    /\ execSubscribers = <<>>
    /\ handlers = <<>>
    /\ nprogress = 0
    /\ events = <<>>
    /\ cancelOps = {}
    /\ cancelCalls = <<>>
    /\ bleOps = {}
    /\ bleListeners = {}
    /\ bleCalls = 0
    /\ nlisten = 0
    /\ nreq = 0
    /\ lastMsg = NoMsg
    /\ buffer = [c \in Conns |-> <<>>]
    /\ reads = [c \in Conns |-> <<>>]
    /\ lines = [c \in Conns |-> <<>>]
    /\ regResult = NoResult
    /\ notified = <<>>
    /\ cleanCalls = {}
    /\ discoveredPeripherals = <<>>
    /\ ndiscover = 0
    /\ pstate = [p \in PeripheralIds |-> "disconnected"]
    /\ connectedPeripherals = {}
    /\ calls = <<>>
    /\ established = {}
    /\ activeSubscriptions = {}
    /\ httpOps = {}
    /\ httpRes = NoResponse
    /\ legacy = NoLegacy

InitWith(token) == InitState(token, StartupTools)

\* MCP_TOKEN unset: no authentication required
Init == InitWith(NoToken)

\* MCP_TOKEN set
InitAuth == InitWith(Secret)

\* before the hosting process registered any tool
InitRegistry == InitState(NoToken, NoTools)

(* ---------------------------- tool registry --------------------------- *)

\* toolDef.id of a registerTool call ("" is a missing toolDef or id)
RegisterIds == {"", "echo", "job"}
\* toolDef and handler of a registerTool call
Metas == {"m1", "m2"}
HandlerKinds == {"plain", "cancelable"}

\* the registry that takes a second registration of an id
AlreadyRegistered_Never(id) == FALSE

\* this.tools.has(toolDef.id)
AlreadyRegistered(id) == id \in DOMAIN tools

\* this.tools.set(toolDef.id, { meta: toolDef, handler })
ToolsSet(registry, id, meta, handler) ==
    [t \in DOMAIN registry \cup {id} |->
        IF t = id THEN [meta |-> meta, handler |-> handler] ELSE registry[t]]

\* registerTool
RegisterTool(id, meta, handler) ==
    LET call == [id |-> id, meta |-> meta, handler |-> handler,
                 returned |-> "", threw |-> ""]
    IN  /\ IF id = ""
           THEN /\ regResult' = [call EXCEPT !.threw = "tool_def_missing_id"]
                /\ tools' = tools
           ELSE IF AlreadyRegistered(id)
           THEN /\ regResult' = [call EXCEPT !.threw = "tool_already_registered"]
                /\ tools' = tools
           ELSE /\ regResult' = [call EXCEPT !.returned = id]
                /\ tools' = ToolsSet(tools, id, meta, handler)
        /\ UNCHANGED <<mgrVars, httpVars, legacy, authToken, framerVars, notified, cleanCalls, connVars, out, execVars,
                       cancelVars, bleVars, nreq, lastMsg>>

(* ---------------------------- connections ----------------------------- *)

\* a server that greets with its first response
Accepted_Silent(o, c) == o

\* the handshake written on accept
Accepted(o, c) == [o EXCEPT ![c] = Append(@, ResultEnv("mcp/handshake", 0))]

\* _onConnection up to the handshake; the sockets are accepted in the order
\* of ConnOrder (they are interchangeable)
Connect(c) ==
    /\ cstate[c] = "idle"
    /\ \A i \in DOMAIN ConnOrder : \A j \in 1..(i - 1) :
           ConnOrder[i] = c => cstate[ConnOrder[j]] # "idle"
    /\ cstate' = [cstate EXCEPT ![c] = "open"]
    /\ clients' = clients \cup {c}
    /\ subscriptions' = [subscriptions EXCEPT ![c] = EmptyMap]
    /\ out' = Accepted(out, c)
    /\ UNCHANGED <<authToken, tools, restVars, authed, execVars, cancelVars,
                   bleOps, bleListeners, bleCalls, nlisten, nreq, lastMsg>>

(* ------------------------- message handling --------------------------- *)

\* the catch of _handleMessage: one mcp/error with err.message as its code
Throw(c, id, code) ==
    /\ out' = Write(out, c, ErrorEnv(id, code))
    /\ UNCHANGED <<authToken, tools, restVars, connVars, execVars, cancelVars, bleVars>>

\* the flag kept for the server instead of on the socket: one authenticated
\* connection opens the gate for all
AuthRequired_AnySocket(c) == authToken # NoToken /\ \A d \in Conns : ~authed[d]

\* the gate that ignores the socket's flag
AuthRequired_Always(c) == authToken # NoToken

\* the condition of the auth gate
AuthRequired(c) == authToken # NoToken /\ ~authed[c]

\* the gate that takes any token for the secret
AuthGate_AnyToken(c, type, id, payload) ==
    IF type # "mcp/auth"
    THEN Throw(c, id, "authentication_required")
    ELSE /\ authed' = [authed EXCEPT ![c] = TRUE]
         /\ out' = Write(out, c, ResultEnv("mcp/auth.ok", id))
         /\ UNCHANGED <<authToken, tools, restVars, clients, cstate,
                        execVars, cancelVars, bleVars>>

\* the auth gate: only mcp/auth gets through, and only to be compared
AuthGate(c, type, id, payload) ==
    IF type # "mcp/auth"
    THEN Throw(c, id, "authentication_required")
    ELSE IF payload.token # authToken
    THEN Throw(c, id, "invalid_token")
    ELSE /\ authed' = [authed EXCEPT ![c] = TRUE]
         /\ out' = Write(out, c, ResultEnv("mcp/auth.ok", id))
         /\ UNCHANGED <<authToken, tools, restVars, clients, cstate, execVars, cancelVars, bleVars>>

\* mcp.tools.discover / mcp.tools.list
ToolsList(c, id) ==
    /\ out' = Write(out, c, ResultEnv("mcp.tools.list.result", id))
    /\ UNCHANGED <<authToken, tools, restVars, connVars, execVars, cancelVars, bleVars>>

\* mcp.tool.info
ToolInfo(c, id, payload) ==
    IF payload.toolId = "" THEN Throw(c, id, "missing_toolId")
    ELSE IF payload.toolId \notin DOMAIN tools THEN Throw(c, id, "tool_not_found")
    ELSE /\ out' = Write(out, c, ResultEnv("mcp.tool.info.result", id))
         /\ UNCHANGED <<authToken, tools, restVars, connVars, execVars, cancelVars, bleVars>>

\* the envelope to every connected socket
Broadcast_All(o, subs, env) ==
    [s \in Conns |-> IF cstate[s] = "open" THEN Append(o[s], env) ELSE o[s]]

\* a broadcast that the first failing write aborts
Broadcast_Aborted(o, subs, env) ==
    IF \E s \in subs : cstate[s] # "open" THEN o
    ELSE [s \in Conns |-> IF s \in subs THEN Append(o[s], env) ELSE o[s]]

\* broadcast: the envelope to every socket of the set; a write that fails
\* is skipped (try/catch around each s.write)
Broadcast(o, subs, env) ==
    [s \in Conns |-> IF s \in subs /\ cstate[s] = "open" THEN Append(o[s], env) ELSE o[s]]

\* n times the same element
Repeat(x, n) == [i \in 1..n |-> x]

\* the catch block that broadcasts the failure without storing it
SettleRejected_NoResult(rec, m) == [rec EXCEPT !.status = "failed"]

\* the record after the handler threw or rejected
SettleRejected(rec, m) ==
    [rec EXCEPT !.status = "failed", !.result = ErrorResult(m)]

\* what the handler resolved with: maybe, and whether maybe.cancel is a
\* function (then value is maybe.result)
Maybe(hasCancel, value) == [hasCancel |-> hasCancel, value |-> value]

\* a handler completion that stores the capability and nothing else
SettleResolved_CapabilityOnly(rec, maybe) == [rec EXCEPT !.cancelFn = maybe.hasCancel]

\* a handler completion that stores the result and leaves the status as it is
SettleResolved_StillRunning(rec, maybe) == [rec EXCEPT !.result = maybe.value]

\* the record after the handler resolved
SettleResolved(rec, maybe) ==
    IF maybe.hasCancel
    THEN [rec EXCEPT !.cancelFn = TRUE,
                     !.result = IF maybe.value.falsy THEN Null ELSE maybe.value,
                     !.status = "completed"]
    ELSE [rec EXCEPT !.result = maybe.value, !.status = "completed"]

\* the completed event carrying what the handler handed over instead of the
\* stored result
CompletedData_Raw(rec, maybe) == maybe.value

\* the data of the completed event
CompletedData(rec, maybe) == rec.result

\* a registry lookup that always finds an entry
NoEntry_Never(toolId) == FALSE

\* !entry, for entry = this.tools.get(toolId)
NoEntry(toolId) == toolId \notin DOMAIN tools

\* what the execute request writes to the initiator, in order: the handler
\* runs up to its first suspension point (its onProgress calls and, if it
\* throws there, the failed event) before the started response is written
ExecuteWrites(syncEvents, started) == syncEvents \o <<started>>

\* mcp.tool.execute; sp onProgress calls and possibly a throw happen before
\* the handler's first suspension point
ToolExecute(c, id, payload) ==
    LET toolId == payload.toolId IN
    IF toolId = "" THEN Throw(c, id, "missing_toolId")
    ELSE IF NoEntry(toolId) THEN Throw(c, id, "tool_not_found")
    ELSE \E sp \in 0..(MaxProgress - nprogress), thrown \in BOOLEAN, m \in ErrMsgs :
        LET execId == Len(executions) + 1
            rec0 == [toolId |-> toolId, status |-> "running", result |-> Null,
                     cancelFn |-> FALSE]
            rec == IF thrown THEN SettleRejected(rec0, m) ELSE rec0
            progress == Repeat([event |-> "progress", data |-> ProgressData], sp)
            evs == IF thrown
                   THEN Append(progress, [event |-> "failed", data |-> rec.result])
                   ELSE progress
            syncEvents == [i \in 1..Len(evs) |-> EventEnv(evs[i].event, execId, evs[i].data)]
            started == Env("mcp.tool.execute.started", id, "", "", execId, Null)
        IN  /\ Len(executions) < MaxExec
            /\ executions' = Append(executions, rec)
            /\ execSubscribers' = Append(execSubscribers, {c})
            /\ handlers' = Append(handlers,
                   [phase |-> IF thrown THEN "settled" ELSE "pending",
                    error |-> IF thrown THEN m ELSE "",
                    value |-> Null])
            /\ nprogress' = nprogress + sp
            /\ events' = Append(events, evs)
            /\ cancelCalls' = Append(cancelCalls, [invoked |-> 0, failed |-> 0])
            /\ out' = [out EXCEPT ![c] = @ \o ExecuteWrites(syncEvents, started)]
            /\ UNCHANGED <<authToken, tools, restVars, connVars, cancelOps, bleVars>>

\* a subscribe that removes a connection already in the set
SetAdd_Toggle(subs, c) == IF c \in subs THEN subs \ {c} ELSE subs \cup {c}

\* Set.add(socket)
SetAdd(subs, c) == subs \cup {c}

\* a lookup that misses the records of finished executions
HasExecution_WhileRunning(execId) ==
    execId \in DOMAIN executions /\ executions[execId].status = "running"

\* this.executions.has(execId); this.executions.get(execId) is a record
HasExecution(execId) == execId \in DOMAIN executions

\* mcp.exec.subscribe
ExecSubscribe(c, id, payload) ==
    LET execId == payload.execId IN
    IF execId = 0 THEN Throw(c, id, "missing_execId")
    ELSE IF ~HasExecution(execId) THEN Throw(c, id, "execution_not_found")
    ELSE /\ execSubscribers' = [execSubscribers EXCEPT ![execId] = SetAdd(@, c)]
         /\ out' = Write(out, c, Env("mcp.exec.subscribe.ack", id, "", "", execId, Null))
         /\ UNCHANGED <<authToken, tools, restVars, connVars, executions, handlers, events,
                        nprogress, cancelVars, bleVars>>

\* mcp.exec.unsubscribe
ExecUnsubscribe(c, id, payload) ==
    LET execId == payload.execId IN
    IF execId = 0 THEN Throw(c, id, "missing_execId")
    ELSE /\ execSubscribers' =
               IF execId \in DOMAIN execSubscribers
               THEN [execSubscribers EXCEPT ![execId] = @ \ {c}]
               ELSE execSubscribers
         /\ out' = Write(out, c, Env("mcp.exec.unsubscribe.ack", id, "", "", execId, Null))
         /\ UNCHANGED <<authToken, tools, restVars, connVars, executions, handlers, events,
                        nprogress, cancelVars, bleVars>>

\* the payload of mcp.exec.status.result: state and result of the record
StatusEnv(id, execId, rec) ==
    Env("mcp.exec.status.result", id, "", rec.status, execId, rec.result)

\* mcp.exec.status
ExecStatus(c, id, payload) ==
    LET execId == payload.execId IN
    IF execId = 0 THEN Throw(c, id, "missing_execId")
    ELSE IF ~HasExecution(execId) THEN Throw(c, id, "execution_not_found")
    ELSE /\ out' = Write(out, c, StatusEnv(id, execId, executions[execId]))
         /\ UNCHANGED <<authToken, tools, restVars, connVars, execVars, cancelVars, bleVars>>

\* the test mcp.exec.cancel makes before it invokes the cancel capability
Cancellable(rec) == rec.cancelFn

\* the record after rec.cancelFn() resolved
Cancelled(rec) == [rec EXCEPT !.status = "cancelled"]

\* the status assigned before the outcome of rec.cancelFn() is known
CancelFailed_StatusSet(rec) == [rec EXCEPT !.status = "cancelled"]

\* the record after rec.cancelFn() threw or rejected
CancelFailed(rec) == rec

\* mcp.exec.cancel up to the await of rec.cancelFn(); the capability may
\* throw at once instead of returning a promise
ExecCancel(c, id, payload) ==
    LET execId == payload.execId IN
    IF execId = 0 THEN Throw(c, id, "missing_execId")
    ELSE IF execId \notin DOMAIN executions THEN Throw(c, id, "execution_not_found")
    ELSE IF ~Cancellable(executions[execId]) THEN Throw(c, id, "not_cancellable")
    ELSE \E threw \in BOOLEAN :
        /\ IF threw
           THEN /\ cancelCalls' = [cancelCalls EXCEPT ![execId].invoked = @ + 1,
                                                      ![execId].failed = @ + 1]
                /\ executions' = [executions EXCEPT ![execId] = CancelFailed(@)]
                /\ out' = Write(out, c, ErrorEnv(id, "cancel_failed"))
                /\ cancelOps' = cancelOps
           ELSE /\ cancelCalls' = [cancelCalls EXCEPT ![execId].invoked = @ + 1]
                /\ executions' = executions
                /\ out' = out
                /\ cancelOps' = cancelOps \cup {[conn |-> c, id |-> id, execId |-> execId]}
        /\ UNCHANGED <<authToken, tools, restVars, nprogress, connVars, execSubscribers, handlers, events,
                       bleVars>>

\* ble-manager's getDiscoveredPeripherals(): one summary for each
\* discovered peripheral, in the order of discovery (address, name and
\* advertised services do not change and are left out)
GetDiscoveredPeripherals ==
    [i \in DOMAIN discoveredPeripherals |->
        [id |-> discoveredPeripherals[i], state |-> pstate[discoveredPeripherals[i]]]]

\* a response that leaves the list out
DevicesResult_NoList(id, devs) == ResultEnv("mcp.ble.devices.result", id)

\* {type: 'mcp.ble.devices.result', id, payload: {devices: devs}}
DevicesResult(id, devs) == Env("mcp.ble.devices.result", id, "", "", 0, devs)

\* mcp.ble.devices up to the await of getDiscoveredPeripherals(), which has
\* returned the list by then
BleDevices(c, id) ==
    /\ bleCalls' = bleCalls + 1
    /\ bleOps' = bleOps \cup {[kind |-> "devices", conn |-> c, id |-> id,
                               deviceId |-> <<>>, characteristicUuid |-> <<>>,
                               listener |-> 0, devices |-> GetDiscoveredPeripherals]}
    /\ UNCHANGED <<authToken, tools, restVars, connVars, out, execVars, cancelVars,
                   subscriptions, bleListeners, nlisten>>

\* `${deviceId}:${characteristicUuid}`
Key(deviceId, characteristicUuid) == deviceId \o characteristicUuid

\* mcp.ble.subscribe up to the await of bleManager.subscribe()
BleSubscribe(c, id, payload) ==
    IF payload.deviceId = <<>> \/ payload.characteristicUuid = <<>>
    THEN Throw(c, id, "missing_params")
    ELSE /\ nlisten' = nlisten + 1
         /\ bleCalls' = bleCalls + 1
         /\ bleOps' = bleOps \cup {[kind |-> "subscribe", conn |-> c, id |-> id,
                                    deviceId |-> payload.deviceId,
                                    characteristicUuid |-> payload.characteristicUuid,
                                    listener |-> nlisten + 1, devices |-> <<>>]}
         /\ UNCHANGED <<authToken, tools, restVars, connVars, out, execVars, cancelVars,
                        subscriptions, bleListeners>>

\* this.subscriptions.get(socket).get(key): the listener, or 0
Lookup(map, key) ==
    IF \E e \in map.entries : e.key = key
    THEN (CHOOSE e \in map.entries : e.key = key).listener
    ELSE 0

\* mcp.ble.unsubscribe up to the await of bleManager.unsubscribe()
BleUnsubscribe(c, id, payload) ==
    IF payload.deviceId = <<>> \/ payload.characteristicUuid = <<>>
    THEN Throw(c, id, "missing_params")
    ELSE LET key == Key(payload.deviceId, payload.characteristicUuid)
             listener == Lookup(subscriptions[c], key)
         IN  IF listener = 0 THEN Throw(c, id, "not_subscribed")
             ELSE /\ bleCalls' = bleCalls + 1
                  /\ bleOps' = bleOps \cup {[kind |-> "unsubscribe", conn |-> c, id |-> id,
                                    deviceId |-> payload.deviceId,
                                    characteristicUuid |-> payload.characteristicUuid,
                                    listener |-> listener, devices |-> <<>>]}
                  /\ UNCHANGED <<authToken, tools, restVars, connVars, out, execVars, cancelVars,
                                 subscriptions, bleListeners, nlisten>>

\* the types _handleMessage knows after the auth gate
\* an answer to an unknown type that drops the request's id
Unsupported_NoId(c, id) == Throw(c, 0, "unsupported_command")

\* unknown / unsupported
Unsupported(c, id) == Throw(c, id, "unsupported_command")

Dispatch(c, type, id, payload) ==
    CASE type \in {"mcp.tools.discover", "mcp.tools.list"} -> ToolsList(c, id)
      [] type = "mcp.tool.info" -> ToolInfo(c, id, payload)
      [] type = "mcp.tool.execute" -> ToolExecute(c, id, payload)
      [] type = "mcp.exec.subscribe" -> ExecSubscribe(c, id, payload)
      [] type = "mcp.exec.unsubscribe" -> ExecUnsubscribe(c, id, payload)
      [] type = "mcp.exec.status" -> ExecStatus(c, id, payload)
      [] type = "mcp.exec.cancel" -> ExecCancel(c, id, payload)
      [] type = "mcp.ble.devices" -> BleDevices(c, id)
      [] type = "mcp.ble.subscribe" -> BleSubscribe(c, id, payload)
      [] type = "mcp.ble.unsubscribe" -> BleUnsubscribe(c, id, payload)
      [] OTHER -> Unsupported(c, id)

\* _handleMessage for one decoded envelope, up to its first await
HandleMessage(c, msg) ==
    /\ cstate[c] = "open"
    /\ nreq < MaxReq
    /\ nreq' = nreq + 1
    /\ lastMsg' = [conn |-> c, type |-> msg.type, id |-> msg.id, payload |-> msg.payload]
    /\ IF AuthRequired(c)
       THEN AuthGate(c, NormalizeType(msg.type), msg.id, msg.payload)
       ELSE Dispatch(c, NormalizeType(msg.type), msg.id, msg.payload)

(* ------------------------------ framing ------------------------------- *)

\* the characters a client sends: "x" is a character no JSON text is made
\* of, "7" a digit, "null" the four characters of the literal null (taken
\* together), " " white space and "\n" the line feed
Chars == {"x", "7", "null", " ", "\n"}

\* the chunks of at most n characters
Chunks(n) == UNION {[1..k -> Chars] : k \in 1..n}

\* String.prototype.trim
RECURSIVE Trim(_)
Trim(t) ==
    IF t = <<>> THEN t
    ELSE IF Head(t) = " " THEN Trim(Tail(t))
    ELSE IF t[Len(t)] = " " THEN Trim(SubSeq(t, 1, Len(t) - 1))
    ELSE t

\* buffer.indexOf('\n') + 1; 0 if there is none
IndexOfNewline(t) ==
    IF \E i \in DOMAIN t : t[i] = "\n"
    THEN CHOOSE i \in DOMAIN t : t[i] = "\n" /\ \A j \in 1..(i - 1) : t[j] # "\n"
    ELSE 0

\* the loop of the data handler: the records it hands to _handleMessage
\* (appended to acc) and the buffer it keeps
RECURSIVE Slice(_, _)
Slice(buf, acc) ==
    LET idx == IndexOfNewline(buf) IN
    IF idx = 0 THEN [buffer |-> buf, lines |-> acc]
    ELSE LET line == Trim(SubSeq(buf, 1, idx - 1))
         IN  Slice(SubSeq(buf, idx + 1, Len(buf)),
                   IF Len(line) > 0 THEN Append(acc, line) ELSE acc)

\* the data handler that starts every read with an empty buffer
OnData_NoRemainder(buf, chunk) == Slice(chunk, <<>>)

\* the data handler: buffer += chunk, then the loop
OnData(buf, chunk) == Slice(buf \o chunk, <<>>)

\* what _handleMessage makes of a record: JSON.parse throws ("invalid"), or
\* gives null, or a number
Decode(line) ==
    IF line = <<"null">> THEN "null"
    ELSE IF \A i \in DOMAIN line : line[i] = "7" THEN "number"
    ELSE "invalid"

\* what _handleMessage writes for a record up to its first await, in order
RawResponse(c, line) ==
    CASE Decode(line) = "invalid" -> <<ErrorEnv(0, "invalid_json")>>
      [] Decode(line) = "null" -> <<>>
      [] Decode(line) = "number" ->
            <<ErrorEnv(0, IF AuthRequired(c) THEN "authentication_required"
                                             ELSE "unsupported_command")>>

\* the writes for several records
RECURSIVE RawResponses(_, _)
RawResponses(c, ls) ==
    IF ls = <<>> THEN <<>> ELSE RawResponse(c, Head(ls)) \o RawResponses(c, Tail(ls))

\* the characters of several chunks, in order
RECURSIVE Concat(_)
Concat(chunks) == IF chunks = <<>> THEN <<>> ELSE Head(chunks) \o Concat(Tail(chunks))

\* the characters received so far on all sockets
BytesReceived ==
    LET RECURSIVE Sum(_)
        Sum(S) == IF S = {} THEN 0
                  ELSE LET c == CHOOSE c \in S : TRUE
                       IN  Len(Concat(reads[c])) + Sum(S \ {c})
    IN  Sum(Conns)

\* socket.on('data'): the records of the chunk are handed to _handleMessage
\* one after the other, each running up to its first await. A record that
\* is the literal null makes _handleMessage reject (msg.type of null, outside
\* its try); nobody handles the rejection, and the process logs it or exits
\* after the handler has returned, as the hosting process is set up.
RecvData(c, chunk) ==
    /\ cstate[c] = "open"
    /\ BytesReceived + Len(chunk) <= MaxBytes
    /\ LET r == OnData(buffer[c], chunk)
       IN  /\ buffer' = [buffer EXCEPT ![c] = r.buffer]
           /\ lines' = [lines EXCEPT ![c] = @ \o r.lines]
           /\ out' = [out EXCEPT ![c] = @ \o RawResponses(c, r.lines)]
           /\ \E exits \in BOOLEAN :
                 /\ exits => \E i \in DOMAIN r.lines : Decode(r.lines[i]) = "null"
                 /\ cstate' = IF exits THEN [d \in Conns |-> "gone"] ELSE cstate
    /\ reads' = [reads EXCEPT ![c] = Append(@, chunk)]
    /\ UNCHANGED <<mgrVars, httpVars, legacy, authToken, tools, regResult, notified, cleanCalls, clients, authed, execVars,
                   cancelVars, bleVars, nreq, lastMsg>>

(* ------------------------ the client's requests ----------------------- *)

Id == nreq + 1

RecvAuth(c, rawType, token) ==
    HandleMessage(c, Msg(rawType, Id, Payload(token, "", 0, <<>>, <<>>)))

RecvToolsList(c, rawType) == HandleMessage(c, Msg(rawType, Id, EmptyPayload))

RecvToolInfo(c, toolId) ==
    HandleMessage(c, Msg("mcp.tool.info", Id, Payload("", toolId, 0, <<>>, <<>>)))

RecvExecute(c, toolId) ==
    HandleMessage(c, Msg("mcp.tool.execute", Id, Payload("", toolId, 0, <<>>, <<>>)))

RecvExecSubscribe(c, execId) ==
    HandleMessage(c, Msg("mcp.exec.subscribe", Id, Payload("", "", execId, <<>>, <<>>)))

RecvExecUnsubscribe(c, execId) ==
    HandleMessage(c, Msg("mcp.exec.unsubscribe", Id, Payload("", "", execId, <<>>, <<>>)))

RecvExecStatus(c, execId) ==
    HandleMessage(c, Msg("mcp.exec.status", Id, Payload("", "", execId, <<>>, <<>>)))

RecvExecCancel(c, execId) ==
    HandleMessage(c, Msg("mcp.exec.cancel", Id, Payload("", "", execId, <<>>, <<>>)))

RecvBleDevices(c) == HandleMessage(c, Msg("mcp.ble.devices", Id, EmptyPayload))

RecvBleSubscribe(c, deviceId, characteristicUuid) ==
    HandleMessage(c, Msg("mcp.ble.subscribe", Id,
                         Payload("", "", 0, deviceId, characteristicUuid)))

RecvBleUnsubscribe(c, deviceId, characteristicUuid) ==
    HandleMessage(c, Msg("mcp.ble.unsubscribe", Id,
                         Payload("", "", 0, deviceId, characteristicUuid)))

RecvUnknown(c) == HandleMessage(c, Msg("mcp.bogus", Id, EmptyPayload))

(* ----------------------- the handler of a tool ------------------------ *)

\* the handler calls onProgress after its first suspension point, be its
\* promise pending or settled: onProgress is broadcast('progress', p)
HandlerProgress(e) ==
    /\ e \in DOMAIN executions
    /\ nprogress < MaxProgress
    /\ nprogress' = nprogress + 1
    /\ events' = [events EXCEPT ![e] = Append(@, [event |-> "progress", data |-> ProgressData])]
    /\ out' = Broadcast(out, execSubscribers[e], EventEnv("progress", e, ProgressData))
    /\ UNCHANGED <<authToken, tools, restVars, connVars, executions, execSubscribers, handlers,
                   cancelVars, bleVars, nreq, lastMsg>>

\* the handler's promise resolves with v (a "cancelable" handler: with
\* {result: v, cancel})
HandlerResolve(e, v) ==
    /\ e \in DOMAIN executions
    /\ handlers[e].phase = "pending"
    /\ LET maybe == Maybe(tools[executions[e].toolId].handler = "cancelable", v)
           rec == SettleResolved(executions[e], maybe)
           data == CompletedData(rec, maybe)
       IN  /\ executions' = [executions EXCEPT ![e] = rec]
           /\ events' = [events EXCEPT ![e] = Append(@, [event |-> "completed", data |-> data])]
           /\ out' = Broadcast(out, execSubscribers[e], EventEnv("completed", e, data))
    /\ handlers' = [handlers EXCEPT ![e].phase = "settled", ![e].value = v]
    /\ UNCHANGED <<authToken, tools, restVars, nprogress, connVars, execSubscribers, cancelVars, bleVars,
                   nreq, lastMsg>>

\* the handler's promise rejects with an error of message m
HandlerReject(e, m) ==
    /\ e \in DOMAIN executions
    /\ handlers[e].phase = "pending"
    /\ LET rec == SettleRejected(executions[e], m)
       IN  /\ executions' = [executions EXCEPT ![e] = rec]
           /\ events' = [events EXCEPT ![e] = Append(@, [event |-> "failed", data |-> rec.result])]
           /\ out' = Broadcast(out, execSubscribers[e], EventEnv("failed", e, rec.result))
    /\ handlers' = [handlers EXCEPT ![e].phase = "settled", ![e].error = m]
    /\ UNCHANGED <<authToken, tools, restVars, nprogress, connVars, execSubscribers, cancelVars, bleVars,
                   nreq, lastMsg>>

(* ------------------------ the cancel capability ----------------------- *)

\* rec.cancelFn() resolved: the status, the ack, then the cancelled event
CancelResolve(op) ==
    /\ op \in cancelOps
    /\ cancelOps' = cancelOps \ {op}
    /\ executions' = [executions EXCEPT ![op.execId] = Cancelled(@)]
    /\ events' = [events EXCEPT ![op.execId] = Append(@, [event |-> "cancelled", data |-> Null])]
    /\ out' = Broadcast(
           Write(out, op.conn, Env("mcp.exec.cancel.ack", op.id, "", "cancelled", op.execId, Null)),
           execSubscribers[op.execId], EventEnv("cancelled", op.execId, Null))
    /\ UNCHANGED <<authToken, tools, restVars, nprogress, connVars, execSubscribers, handlers, cancelCalls,
                   bleVars, nreq, lastMsg>>

\* rec.cancelFn() rejected: cancel_failed through the catch of _handleMessage
CancelReject(op) ==
    /\ op \in cancelOps
    /\ cancelOps' = cancelOps \ {op}
    /\ cancelCalls' = [cancelCalls EXCEPT ![op.execId].failed = @ + 1]
    /\ executions' = [executions EXCEPT ![op.execId] = CancelFailed(@)]
    /\ out' = Write(out, op.conn, ErrorEnv(op.id, "cancel_failed"))
    /\ UNCHANGED <<authToken, tools, restVars, nprogress, connVars, execSubscribers, handlers, events,
                   bleVars, nreq, lastMsg>>

(* ------------------------- the BLE collaborator ----------------------- *)

\* Map.set(key, listener)
MapSet(map, key, listener) ==
    [map EXCEPT !.entries = {e \in @ : e.key # key} \cup {[key |-> key, listener |-> listener]}]

\* Map.delete(key)
MapDelete(map, key) == [map EXCEPT !.entries = {e \in @ : e.key # key}]

\* the registration the collaborator holds for a listener
Registration(deviceId, characteristicUuid, listener, c) ==
    [deviceId |-> deviceId, characteristicUuid |-> characteristicUuid,
     listener |-> listener, conn |-> c]

\* the awaited collaborator call resolved
BleResolve(op) ==
    /\ op \in bleOps
    /\ bleOps' = bleOps \ {op}
    /\ LET key == Key(op.deviceId, op.characteristicUuid)
           reg == Registration(op.deviceId, op.characteristicUuid, op.listener, op.conn)
           map == subscriptions[op.conn]
       IN  CASE op.kind = "devices" ->
                  /\ out' = Write(out, op.conn, DevicesResult(op.id, op.devices))
                  /\ UNCHANGED <<subscriptions, bleListeners>>
             [] op.kind = "subscribe" ->
                  /\ bleListeners' = bleListeners \cup {reg}
                  /\ IF map.present
                     THEN /\ subscriptions' = [subscriptions EXCEPT ![op.conn] =
                                                  MapSet(map, key, op.listener)]
                          /\ out' = Write(out, op.conn,
                                          ResultEnv("mcp.ble.subscribe.result", op.id))
                     ELSE /\ subscriptions' = subscriptions
                          /\ out' = Write(out, op.conn, ErrorEnv(op.id, "TypeError"))
             [] op.kind = "unsubscribe" ->
                  /\ bleListeners' = bleListeners \ {reg}
                  /\ IF map.present
                     THEN /\ subscriptions' = [subscriptions EXCEPT ![op.conn] =
                                                  MapDelete(map, key)]
                          /\ out' = Write(out, op.conn,
                                          ResultEnv("mcp.ble.unsubscribe.result", op.id))
                     ELSE /\ subscriptions' = subscriptions
                          /\ out' = Write(out, op.conn, ErrorEnv(op.id, "TypeError"))
    /\ UNCHANGED <<authToken, tools, restVars, connVars, execVars, cancelVars, bleCalls, nlisten,
                   nreq, lastMsg>>

\* the awaited collaborator call rejected: its message as the error code
\* a rejected collaborator call that is answered with nothing
BleReject_Silent(op) ==
    /\ op \in bleOps
    /\ op.kind # "devices"
    /\ bleOps' = bleOps \ {op}
    /\ UNCHANGED <<authToken, tools, restVars, connVars, execVars, cancelVars, subscriptions,
                   bleListeners, bleCalls, nlisten, nreq, lastMsg, out>>

BleReject(op) ==
    /\ op \in bleOps
    /\ op.kind # "devices"
    /\ bleOps' = bleOps \ {op}
    /\ out' = Write(out, op.conn, ErrorEnv(op.id, "ble_error"))
    /\ UNCHANGED <<authToken, tools, restVars, connVars, execVars, cancelVars, subscriptions,
                   bleListeners, bleCalls, nlisten, nreq, lastMsg>>

\* a listener that writes to every connection holding a listener for the
\* same device and characteristic
Listener_Shared(o, reg) ==
    [d \in Conns |->
        IF /\ cstate[d] = "open"
           /\ \E r \in bleListeners : /\ r.conn = d
                                      /\ r.deviceId = reg.deviceId
                                      /\ r.characteristicUuid = reg.characteristicUuid
        THEN Append(o[d], ResultEnv("mcp.ble.notification", 0))
        ELSE o[d]]

\* the listener closure of mcp.ble.subscribe, called with data: it writes to
\* the socket of the request that created it
Listener(o, reg) == Write(o, reg.conn, ResultEnv("mcp.ble.notification", 0))

\* the collaborator delivers a notification to a registered listener
BleNotify(reg) ==
    /\ reg \in bleListeners
    /\ Len(notified) < MaxNotify
    /\ notified' = Append(notified, reg.listener)
    /\ out' = Listener(out, reg)
    /\ UNCHANGED <<mgrVars, httpVars, legacy, authToken, tools, framerVars, regResult, cleanCalls, connVars, execVars,
                   cancelVars, bleVars, nreq, lastMsg>>

(* ------------------------------ teardown ------------------------------ *)

\* key.split(':'), destructured into [deviceId, characteristicUuid]
SplitKey(key) ==
    [deviceId |-> IF Len(key) >= 1 THEN <<key[1]>> ELSE <<>>,
     characteristicUuid |-> IF Len(key) >= 2 THEN <<key[2]>> ELSE <<>>]

\* _cleanSubscriptions that skips the collaborator
CleanedRegistrations_None(c) == {}

\* the registrations the unsubscribe calls of _cleanSubscriptions name
CleanedRegistrations(c) ==
    {Registration(SplitKey(e.key).deviceId, SplitKey(e.key).characteristicUuid,
                  e.listener, c) : e \in subscriptions[c].entries}

\* the unsubscribe calls of _cleanSubscriptions, those of `failed` throwing
\* or rejecting
CleanCalls(c, failed) ==
    {[reg |-> r, failed |-> r \in failed] : r \in CleanedRegistrations(c)}

\* teardown that cleans the BLE listeners only
WithoutSubscriber_Kept(subs, c) == subs

\* a teardown that never empties a subscriber set
WithoutSubscriber_LastKept(subs, c) ==
    [e \in DOMAIN subs |-> IF subs[e] = {c} THEN subs[e] ELSE subs[e] \ {c}]

\* teardown that empties every subscriber set
WithoutSubscriber_Emptied(subs, c) == [e \in DOMAIN subs |-> {}]

\* the subscriber sets after _cleanSubscriptions and the handler's own loop
\* over this.execSubscribers
WithoutSubscriber(subs, c) == [e \in DOMAIN subs |-> subs[e] \ {c}]

\* the map after _cleanSubscriptions: cleared, if there is one
Cleared(map) == [map EXCEPT !.entries = {}]

\* the socket fails: from now on a write to it fails and no data arrives on
\* it; its 'error' and 'close' events are dispatched later
SocketBreak(c) ==
    /\ cstate[c] = "open"
    /\ cstate' = [cstate EXCEPT ![c] = "broken"]
    /\ UNCHANGED <<authToken, tools, restVars, clients, authed, execVars, cancelVars, bleVars,
                   out, nreq, lastMsg>>

\* socket.on('error')
SocketError(c) ==
    /\ cstate[c] \in {"open", "broken"}
    /\ cstate' = [cstate EXCEPT ![c] = "errored"]
    /\ bleCalls' = bleCalls + Cardinality(CleanedRegistrations(c))
    /\ \E failed \in SUBSET CleanedRegistrations(c) :
          /\ cleanCalls' = cleanCalls \cup CleanCalls(c, failed)
          /\ bleListeners' = bleListeners \ (CleanedRegistrations(c) \ failed)
    /\ subscriptions' = [subscriptions EXCEPT ![c] = Cleared(@)]
    /\ clients' = clients \ {c}
    /\ execSubscribers' = WithoutSubscriber(execSubscribers, c)
    /\ UNCHANGED <<mgrVars, httpVars, legacy, authToken, tools, framerVars, regResult, notified,
                   nprogress, authed, out,
                   executions, handlers, events, cancelVars, bleOps, nlisten, nreq, lastMsg>>

\* socket.on('close'), after an error or without one
SocketClose(c) ==
    /\ cstate[c] \in {"open", "broken", "errored"}
    /\ cstate' = [cstate EXCEPT ![c] = "closed"]
    /\ bleCalls' = bleCalls + Cardinality(CleanedRegistrations(c))
    /\ \E failed \in SUBSET CleanedRegistrations(c) :
          /\ cleanCalls' = cleanCalls \cup CleanCalls(c, failed)
          /\ bleListeners' = bleListeners \ (CleanedRegistrations(c) \ failed)
    /\ subscriptions' = [subscriptions EXCEPT ![c] = NoMap]
    /\ clients' = clients \ {c}
    /\ execSubscribers' = WithoutSubscriber(execSubscribers, c)
    /\ UNCHANGED <<mgrVars, httpVars, legacy, authToken, tools, framerVars, regResult, notified,
                   nprogress, authed, out,
                   executions, handlers, events, cancelVars, bleOps, nlisten, nreq, lastMsg>>

(* ----------------------------- ble-manager ---------------------------- *)

\* a discover handler that never finds the peripheral in the list
Known_Never(list, id) == FALSE

\* discoveredPeripherals.find(p => p.id === id)
Known(list, id) == \E i \in DOMAIN list : list[i] = id

\* noble.on('discover'); the event is dispatched between the turns of the
\* event loop, so not while a handler waits for the list it already has
Discover(p) ==
    /\ ndiscover < MaxDiscover
    /\ \A op \in bleOps : op.kind # "devices"
    /\ ndiscover' = ndiscover + 1
    /\ discoveredPeripherals' =
          IF Known(discoveredPeripherals, p)
          THEN discoveredPeripherals
          ELSE Append(discoveredPeripherals, p)
    /\ UNCHANGED <<mcpVars, pstate, connectedPeripherals, calls, established, httpVars,
                   legacy>>

\* one call of connectDevice or disconnectDevice: the state of its promise
\* and the message of its rejection, what it waits for, the `once`
\* listeners it still holds on the peripheral, and peripheral.state when
\* it was made
Call(op, pid, outcome, msg, stage, listeners) ==
    [op |-> op, pid |-> pid, outcome |-> outcome, msg |-> msg, stage |-> stage,
     listeners |-> listeners, prior |-> pstate[pid]]

\* connectDevice for a peripheral whose state is connected or connecting
WhenConnected(p) ==
    IF pstate[p] = "connected" /\ p \in connectedPeripherals
    THEN Call("connect", p, "resolved", "", "done", {})
    ELSE Call("connect", p, "rejected", "Peripheral already connected or connecting",
              "done", {})

\* connectDevice(peripheralId) up to peripheral.connect()
ConnectDevice(p) ==
    /\ Len(calls) < MaxCalls
    /\ IF ~Known(discoveredPeripherals, p)
       THEN /\ calls' = Append(calls, Call("connect", p, "rejected", "Peripheral not found",
                                           "done", {}))
            /\ pstate' = pstate
       ELSE IF pstate[p] \in {"connected", "connecting"}
       THEN /\ calls' = Append(calls, WhenConnected(p))
            /\ pstate' = pstate
       ELSE /\ calls' = Append(calls, Call("connect", p, "pending", "", "connect",
                                           {"connect", "disconnect", "error"}))
            /\ pstate' = [pstate EXCEPT ![p] = "connecting"]
    /\ UNCHANGED <<mcpVars, discoveredPeripherals, ndiscover, connectedPeripherals,
                   established, httpVars, legacy>>

\* the calls that hold a `once` listener for an event of peripheral p
Listening(p, event) ==
    {i \in DOMAIN calls : calls[i].pid = p /\ event \in calls[i].listeners}

\* the peripheral emits 'connect': onConnect tracks it and starts discovery
EmitConnect(p) ==
    /\ pstate[p] = "connecting"
    /\ pstate' = [pstate EXCEPT ![p] = "connected"]
    /\ calls' = [i \in DOMAIN calls |->
                    IF i \in Listening(p, "connect")
                    THEN [calls[i] EXCEPT !.stage = "discover", !.listeners = {}]
                    ELSE calls[i]]
    /\ connectedPeripherals' =
          IF Listening(p, "connect") # {}
          THEN connectedPeripherals \cup {p}
          ELSE connectedPeripherals
    /\ UNCHANGED <<mcpVars, discoveredPeripherals, ndiscover, established, httpVars, legacy>>

\* peripheral.connect calls back with an error, or the peripheral emits
\* 'error': onErrorDuringConnection
ConnectError(i) ==
    /\ i \in DOMAIN calls
    /\ calls[i].op = "connect"
    /\ calls[i].stage = "connect"
    /\ calls[i].outcome = "pending"
    /\ calls' = [calls EXCEPT ![i] = [@ EXCEPT !.outcome = "rejected",
                                               !.msg = "Connection failed",
                                               !.stage = "done", !.listeners = {}]]
    /\ pstate' = [pstate EXCEPT ![calls[i].pid] = "disconnected"]
    /\ UNCHANGED <<mcpVars, discoveredPeripherals, ndiscover, connectedPeripherals,
                   established, httpVars, legacy>>

\* the call after the 'disconnect' listener it holds has run:
\* onDisconnectDuringConnection of connectDevice, or the listener of
\* disconnectDevice (resolve does nothing to a promise rejected before)
Disconnected(call) ==
    IF call.op = "connect"
    THEN [call EXCEPT !.outcome = "rejected",
                      !.msg = "Peripheral disconnected during connection process",
                      !.stage = "done", !.listeners = {}]
    ELSE [call EXCEPT !.outcome = IF @ = "pending" THEN "resolved" ELSE @,
                      !.stage = "done", !.listeners = {}]

\* the peripheral emits 'disconnect': the link is gone, after
\* peripheral.disconnect() or without it
EmitDisconnect(p) ==
    /\ pstate[p] # "disconnected"
    /\ pstate' = [pstate EXCEPT ![p] = "disconnected"]
    /\ calls' = [i \in DOMAIN calls |->
                    IF i \in Listening(p, "disconnect")
                    THEN Disconnected(calls[i])
                    ELSE calls[i]]
    /\ connectedPeripherals' =
          IF Listening(p, "disconnect") # {}
          THEN connectedPeripherals \ {p}
          ELSE connectedPeripherals
    /\ established' =
          IF \E i \in Listening(p, "disconnect") :
                calls[i].op = "disconnect" /\ calls[i].outcome = "pending"
          THEN established \ {p}
          ELSE established
    /\ UNCHANGED <<mcpVars, discoveredPeripherals, ndiscover, httpVars, legacy>>

\* discoverAllServicesAndCharacteristics calls back without an error
DiscoverOk(i) ==
    /\ i \in DOMAIN calls
    /\ calls[i].stage = "discover"
    /\ calls' = [calls EXCEPT ![i] = [@ EXCEPT !.outcome = "resolved", !.stage = "done"]]
    /\ established' = established \cup {calls[i].pid}
    /\ UNCHANGED <<mcpVars, discoveredPeripherals, ndiscover, pstate, connectedPeripherals,
                   httpVars, legacy>>

\* discoverAllServicesAndCharacteristics calls back with an error
DiscoverError(i) ==
    /\ i \in DOMAIN calls
    /\ calls[i].stage = "discover"
    /\ calls' = [calls EXCEPT ![i] =
                    [@ EXCEPT !.outcome = "rejected",
                              !.msg = "Failed to discover services/characteristics",
                              !.stage = "done"]]
    /\ connectedPeripherals' = connectedPeripherals \ {calls[i].pid}
    /\ UNCHANGED <<mcpVars, discoveredPeripherals, ndiscover, pstate, established,
                   httpVars, legacy>>

\* disconnectDevice(peripheralId) up to peripheral.disconnect()
DisconnectDevice(p) ==
    /\ Len(calls) < MaxCalls
    /\ IF p \notin connectedPeripherals
       THEN /\ calls' = Append(calls, Call("disconnect", p, "rejected",
                                           "Peripheral not connected or not found",
                                           "done", {}))
            /\ pstate' = pstate
       ELSE /\ calls' = Append(calls, Call("disconnect", p, "pending", "", "disconnect",
                                           {"disconnect"}))
            /\ pstate' = [pstate EXCEPT ![p] = "disconnecting"]
    /\ UNCHANGED <<mcpVars, discoveredPeripherals, ndiscover, connectedPeripherals,
                   established, httpVars, legacy>>

\* peripheral.disconnect calls back with an error: the promise is rejected,
\* the `once` listener stays, the link is as it was
DisconnectError(i) ==
    /\ i \in DOMAIN calls
    /\ calls[i].op = "disconnect"
    /\ calls[i].stage = "disconnect"
    /\ calls[i].outcome = "pending"
    /\ pstate[calls[i].pid] = "disconnecting"
    /\ calls' = [calls EXCEPT ![i] = [@ EXCEPT !.outcome = "rejected",
                                               !.msg = "Disconnect failed",
                                               !.stage = "done"]]
    /\ pstate' = [pstate EXCEPT ![calls[i].pid] = calls[i].prior]
    /\ UNCHANGED <<mcpVars, discoveredPeripherals, ndiscover, connectedPeripherals,
                   established, httpVars, legacy>>

(* ---------------------------- the HTTP server ------------------------- *)

\* `${deviceId}-${characteristicUuid}`, kept as the pair it is made of
SubscriptionKey(deviceId, characteristicUuid) ==
    [deviceId |-> deviceId, characteristicUuid |-> characteristicUuid]

Response(route, deviceId, status) ==
    [route |-> route, deviceId |-> deviceId, status |-> status]

\* POST .../subscribe up to the await of subscribeToCharacteristic, which
\* rejects at once for a peripheral that is not tracked
HttpSubscribe(p, u) ==
    /\ SubscriptionKey(p, u) \notin httpOps
    /\ IF SubscriptionKey(p, u) \in activeSubscriptions
       THEN httpRes' = Response("subscribe", p, 400) /\ httpOps' = httpOps
       ELSE IF p \notin connectedPeripherals
       THEN httpRes' = Response("subscribe", p, 404) /\ httpOps' = httpOps
       ELSE httpRes' = httpRes /\ httpOps' = httpOps \cup {SubscriptionKey(p, u)}
    /\ UNCHANGED <<mcpVars, mgrVars, activeSubscriptions, legacy>>

\* subscribeToCharacteristic resolved: the subscription is stored
HttpSubscribeOk(key) ==
    /\ key \in httpOps
    /\ key \notin activeSubscriptions
    /\ httpOps' = httpOps \ {key}
    /\ activeSubscriptions' = activeSubscriptions \cup {key}
    /\ httpRes' = Response("subscribe", key.deviceId, 200)
    /\ UNCHANGED <<mcpVars, mgrVars, legacy>>

\* subscribeToCharacteristic rejected: characteristic not found or not
\* notifiable (404), or the subscribe call failed (500)
HttpSubscribeFail(key, status) ==
    /\ key \in httpOps
    /\ key \notin activeSubscriptions
    /\ httpOps' = httpOps \ {key}
    /\ httpRes' = Response("subscribe", key.deviceId, status)
    /\ UNCHANGED <<mcpVars, mgrVars, activeSubscriptions, legacy>>

\* POST .../unsubscribe up to the await of unsubscribeFromCharacteristic,
\* which rejects at once for a peripheral that is not tracked
HttpUnsubscribe(p, u) ==
    /\ SubscriptionKey(p, u) \notin httpOps
    /\ IF SubscriptionKey(p, u) \notin activeSubscriptions
       THEN httpRes' = Response("unsubscribe", p, 404) /\ httpOps' = httpOps
       ELSE IF p \notin connectedPeripherals
       THEN httpRes' = Response("unsubscribe", p, 404) /\ httpOps' = httpOps
       ELSE httpRes' = httpRes /\ httpOps' = httpOps \cup {SubscriptionKey(p, u)}
    /\ UNCHANGED <<mcpVars, mgrVars, activeSubscriptions, legacy>>

\* unsubscribeFromCharacteristic resolved: the subscription is deleted
HttpUnsubscribeOk(key) ==
    /\ key \in httpOps
    /\ key \in activeSubscriptions
    /\ httpOps' = httpOps \ {key}
    /\ activeSubscriptions' = activeSubscriptions \ {key}
    /\ httpRes' = Response("unsubscribe", key.deviceId, 200)
    /\ UNCHANGED <<mcpVars, mgrVars, legacy>>

\* unsubscribeFromCharacteristic rejected: the subscription stays
HttpUnsubscribeFail(key) ==
    /\ key \in httpOps
    /\ key \in activeSubscriptions
    /\ httpOps' = httpOps \ {key}
    /\ httpRes' = Response("unsubscribe", key.deviceId, 500)
    /\ UNCHANGED <<mcpVars, mgrVars, activeSubscriptions, legacy>>

\* POST /ble/devices/:deviceId/connect: the route awaits connectDevice and
\* answers with its outcome; it keeps no state of its own
HttpConnect(p) == ConnectDevice(p)

\* POST /ble/devices/:deviceId/disconnect: the route awaits
\* disconnectDevice and answers with its outcome (200 when it resolves); it
\* keeps no state of its own and does not touch activeSubscriptions
HttpDisconnect(p) == DisconnectDevice(p)

(* -------------------------- the legacy server ------------------------- *)

\* one line the legacy server writes: status, id, error, and the devices
\* of a device list (absent fields are "" and <<>>)
LegacyLine(status, id, error, devices) ==
    [status |-> status, id |-> id, error |-> error, devices |-> devices]

\* msg.id || null
IdOrNull(id) == IF id = "" THEN "null" ELSE id

\* msg.cmd && msg.cmd.toLowerCase()
ToLowerCase(cmd) ==
    CASE cmd \in {"listDevices", "LISTDEVICES"} -> "listdevices"
      [] OTHER -> cmd

\* a switch that compares the command as the client wrote it
LegacyCommand_CaseSensitive(cmd) == cmd

\* the command the switch of the legacy _handleMessage compares
LegacyCommand(cmd) == ToLowerCase(cmd)

LegacyWrite(c, line) == [legacy EXCEPT !.out[c] = Append(@, line)]

\* the legacy _onConnection: the welcome line
LegacyConnect(c) ==
    /\ ~legacy.open[c]
    /\ \A i \in DOMAIN ConnOrder : \A j \in 1..(i - 1) :
           ConnOrder[i] = c => legacy.open[ConnOrder[j]]
    /\ legacy' = [LegacyWrite(c, LegacyLine("ok", "welcome", "", <<>>))
                     EXCEPT !.open[c] = TRUE]
    /\ UNCHANGED <<mcpVars, mgrVars, httpVars>>

\* the collaborator's device list the legacy server asks for: getDevices()
\* resolves with the summaries of the discovered peripherals
GetDevices == GetDiscoveredPeripherals

\* the legacy _handleMessage for one decoded request, up to its first await
LegacyHandleMessage(c, cmd, id, token) ==
    /\ legacy.open[c]
    /\ nreq < MaxReq
    /\ nreq' = nreq + 1
    /\ LET seen == [legacy EXCEPT !.last = [conn |-> c, cmd |-> cmd, id |-> id,
                                            n |-> nreq + 1]]
           answer(line) == [seen EXCEPT !.out[c] = Append(@, line)]
       IN  IF authToken # NoToken /\ ~legacy.authed[c]
           THEN IF cmd # "auth"
                THEN legacy' = answer(LegacyLine("error", "", "authentication_required", <<>>))
                ELSE IF token # authToken
                THEN legacy' = answer(LegacyLine("error", "", "invalid_token", <<>>))
                ELSE legacy' = [answer(LegacyLine("ok", IdOrNull(id), "", <<>>))
                                  EXCEPT !.authed[c] = TRUE]
           ELSE IF LegacyCommand(cmd) \in {"listdevices", "devices"}
                THEN legacy' = [seen EXCEPT !.ops = @ \cup {[conn |-> c, id |-> id,
                                                              n |-> nreq + 1]}]
                ELSE legacy' = answer(LegacyLine("error", IdOrNull(id),
                                                 "unsupported_command", <<>>))
    /\ UNCHANGED <<authToken, tools, connVars, out, execVars, cancelVars, bleVars, lastMsg,
                   framerVars, regResult, notified, cleanCalls, mgrVars, httpVars>>

\* getDevices resolved with the collaborator's list
LegacyResolve(op) ==
    /\ op \in legacy.ops
    /\ legacy' = [LegacyWrite(op.conn, LegacyLine("ok", IdOrNull(op.id), "", GetDevices))
                     EXCEPT !.ops = @ \ {op}]
    /\ UNCHANGED <<mcpVars, mgrVars, httpVars>>

(* --------------------------- specifications --------------------------- *)

\* the execIds a client can know
KnownExecIds == DOMAIN executions

\* the steps of the handlers and of the cancel capabilities
Settle ==
    \/ \E e \in 1..MaxExec : HandlerProgress(e)
    \/ \E e \in 1..MaxExec, v \in Values : HandlerResolve(e, v)
    \/ \E e \in 1..MaxExec, m \in ErrMsgs : HandlerReject(e, m)

\* execution, status, subscription and cancellation, no secret configured
Next ==
    \/ \E c \in Conns : Connect(c)
    \/ \E c \in Conns, t \in DOMAIN tools : RecvExecute(c, t)
    \/ \E c \in Conns, e \in KnownExecIds : RecvExecSubscribe(c, e)
    \/ \E c \in Conns, e \in KnownExecIds : RecvExecStatus(c, e)
    \/ \E c \in Conns, e \in KnownExecIds : RecvExecCancel(c, e)
    \/ Settle
    \/ \E op \in cancelOps : CancelResolve(op)
    \/ \E op \in cancelOps : CancelReject(op)

Spec == Init /\ [][Next]_vars

\* execution, subscription and connection teardown, no secret configured
NextTeardown ==
    \/ \E c \in Conns : Connect(c)
    \/ \E c \in Conns, t \in DOMAIN tools : RecvExecute(c, t)
    \/ \E c \in Conns, e \in KnownExecIds : RecvExecSubscribe(c, e)
    \/ \E c \in Conns, e \in KnownExecIds : RecvExecUnsubscribe(c, e)
    \/ \E e \in 1..MaxExec, v \in Values : HandlerResolve(e, v)
    \/ \E e \in 1..MaxExec, m \in ErrMsgs : HandlerReject(e, m)
    \/ \E c \in Conns : SocketError(c)
    \/ \E c \in Conns : SocketClose(c)

SpecTeardown == Init /\ [][NextTeardown]_vars

\* every envelope type, with a secret configured
NextAuth ==
    \/ \E c \in Conns : Connect(c)
    \/ \E c \in Conns, t \in {"mcp/auth", "MCP/AUTH"}, tok \in Tokens : RecvAuth(c, t, tok)
    \/ \E c \in Conns, t \in {"mcp.tools.discover", "mcp.tools.list"} : RecvToolsList(c, t)
    \/ \E c \in Conns, t \in ToolIdInputs : RecvToolInfo(c, t)
    \/ \E c \in Conns, t \in ToolIdInputs : RecvExecute(c, t)
    \/ \E c \in Conns, e \in 1..MaxExec : RecvExecSubscribe(c, e)
    \/ \E c \in Conns, e \in 1..MaxExec : RecvExecUnsubscribe(c, e)
    \/ \E c \in Conns, e \in 1..MaxExec : RecvExecStatus(c, e)
    \/ \E c \in Conns, e \in 1..MaxExec : RecvExecCancel(c, e)
    \/ \E c \in Conns : RecvBleDevices(c)
    \/ \E c \in Conns, d \in DeviceIds, u \in CharUuids : RecvBleSubscribe(c, d, u)
    \/ \E c \in Conns, d \in DeviceIds, u \in CharUuids : RecvBleUnsubscribe(c, d, u)
    \/ \E c \in Conns : RecvUnknown(c)
    \/ \E e \in 1..MaxExec, v \in Values : HandlerResolve(e, v)
    \/ \E op \in bleOps : BleResolve(op)
    \/ \E op \in bleOps : BleReject(op)

SpecAuth == InitAuth /\ [][NextAuth]_vars

\* every envelope type, on a server with a secret configured or without one
SpecEnvelopes == (Init \/ InitAuth) /\ [][NextAuth]_vars

\* the registry being filled, and read by connected clients
NextRegistry ==
    \/ \E id \in RegisterIds, meta \in Metas, h \in HandlerKinds : RegisterTool(id, meta, h)
    \/ \E c \in Conns : Connect(c)
    \/ \E c \in Conns, t \in ToolIdInputs : RecvToolInfo(c, t)

SpecRegistry == InitRegistry /\ [][NextRegistry]_vars

\* the characters arriving on the sockets, in chunks of any size
NextFramer ==
    \/ \E c \in Conns : Connect(c)
    \/ \E c \in Conns, chunk \in Chunks(MaxBytes - BytesReceived) : RecvData(c, chunk)

SpecFramer == Init /\ [][NextFramer]_vars

\* BLE subscriptions, notifications and teardown, no secret configured
NextBle ==
    \/ \E c \in Conns : Connect(c)
    \/ \E c \in Conns, d \in DeviceIds, u \in CharUuids : RecvBleSubscribe(c, d, u)
    \/ \E c \in Conns, d \in DeviceIds, u \in CharUuids : RecvBleUnsubscribe(c, d, u)
    \/ \E op \in bleOps : BleResolve(op)
    \/ \E op \in bleOps : BleReject(op)
    \/ \E reg \in bleListeners : BleNotify(reg)
    \/ \E c \in Conns : SocketError(c)
    \/ \E c \in Conns : SocketClose(c)

SpecBle == Init /\ [][NextBle]_vars

\* everything that writes to a socket: responses, tool events and BLE
\* notifications, no secret configured
NextWrites ==
    \/ \E c \in Conns : Connect(c)
    \/ \E c \in Conns, t \in DOMAIN tools : RecvExecute(c, t)
    \/ \E c \in Conns, d \in DeviceIds, u \in CharUuids : RecvBleSubscribe(c, d, u)
    \/ \E e \in 1..MaxExec, v \in Values : HandlerResolve(e, v)
    \/ \E op \in bleOps : BleResolve(op)
    \/ \E reg \in bleListeners : BleNotify(reg)
    \/ \E c \in Conns : SocketClose(c)

SpecWrites == Init /\ [][NextWrites]_vars

\* executions and their changing subscriber sets, no secret configured
NextFanout ==
    \/ \E c \in Conns : Connect(c)
    \/ \E c \in Conns, t \in DOMAIN tools : RecvExecute(c, t)
    \/ \E c \in Conns, e \in KnownExecIds : RecvExecSubscribe(c, e)
    \/ \E c \in Conns, e \in KnownExecIds : RecvExecUnsubscribe(c, e)
    \/ Settle
    \/ \E c \in Conns : SocketClose(c)

SpecFanout == Init /\ [][NextFanout]_vars

\* authenticated connections with executions and BLE listeners, some of
\* them torn down
NextIsolate ==
    \/ \E c \in Conns : Connect(c)
    \/ \E c \in Conns, tok \in Tokens : RecvAuth(c, "mcp/auth", tok)
    \/ \E c \in Conns, t \in DOMAIN tools : RecvExecute(c, t)
    \/ \E c \in Conns, d \in DeviceIds, u \in CharUuids : RecvBleSubscribe(c, d, u)
    \/ \E e \in 1..MaxExec, v \in Values : HandlerResolve(e, v)
    \/ \E op \in bleOps : BleResolve(op)
    \/ \E c \in Conns : SocketError(c)
    \/ \E c \in Conns : SocketClose(c)

SpecIsolate == InitAuth /\ [][NextIsolate]_vars

\* subscribe and unsubscribe requests for executions that exist and for
\* execIds no execution has, no secret configured
NextSubs ==
    \/ \E c \in Conns : Connect(c)
    \/ \E c \in Conns, t \in DOMAIN tools : RecvExecute(c, t)
    \/ \E c \in Conns, e \in 1..MaxExec : RecvExecSubscribe(c, e)
    \/ \E c \in Conns, e \in 1..MaxExec : RecvExecUnsubscribe(c, e)
    \/ \E e \in 1..MaxExec, v \in Values : HandlerResolve(e, v)

SpecSubs == Init /\ [][NextSubs]_vars

\* broadcasts to subscriber sets some of whose sockets fail before their
\* teardown runs, no secret configured
NextBroadcast ==
    \/ \E c \in Conns : Connect(c)
    \/ \E c \in Conns, t \in DOMAIN tools : RecvExecute(c, t)
    \/ \E c \in Conns, e \in KnownExecIds : RecvExecSubscribe(c, e)
    \/ \E c \in Conns, e \in KnownExecIds : RecvExecUnsubscribe(c, e)
    \/ \E e \in 1..MaxExec : HandlerProgress(e)
    \/ \E e \in 1..MaxExec : HandlerResolve(e, Obj)
    \/ \E c \in Conns : SocketBreak(c)
    \/ \E c \in Conns : SocketClose(c)

SpecBroadcast == Init /\ [][NextBroadcast]_vars

\* status and subscribe requests for executions that run, have finished or
\* do not exist, while connections are torn down, no secret configured
NextRetain ==
    \/ \E c \in Conns : Connect(c)
    \/ \E c \in Conns, t \in DOMAIN tools : RecvExecute(c, t)
    \/ \E c \in Conns, e \in 1..MaxExec : RecvExecSubscribe(c, e)
    \/ \E c \in Conns, e \in 1..MaxExec : RecvExecStatus(c, e)
    \/ \E e \in 1..MaxExec : HandlerResolve(e, Obj)
    \/ \E e \in 1..MaxExec, m \in ErrMsgs : HandlerReject(e, m)
    \/ \E c \in Conns : SocketError(c)
    \/ \E c \in Conns : SocketClose(c)

SpecRetain == Init /\ [][NextRetain]_vars

\* BLE subscriptions for device ids with and without ':', and teardown, no
\* secret configured
NextKeys ==
    \/ \E c \in Conns : Connect(c)
    \/ \E c \in Conns, d \in DeviceIds \cup MacDeviceIds, u \in CharUuids :
          RecvBleSubscribe(c, d, u)
    \/ \E op \in bleOps : BleResolve(op)
    \/ \E c \in Conns : SocketError(c)
    \/ \E c \in Conns : SocketClose(c)

SpecKeys == Init /\ [][NextKeys]_vars

\* requests that are answered at once and requests that await the BLE
\* collaborator or a cancel capability, while connections close; no secret
\* configured
NextRespond ==
    \/ \E c \in Conns : Connect(c)
    \/ \E c \in Conns : RecvExecute(c, "job")
    \/ \E c \in Conns, e \in KnownExecIds : RecvExecCancel(c, e)
    \/ \E c \in Conns, d \in DeviceIds : RecvBleSubscribe(c, d, <<"2a37">>)
    \/ \E c \in Conns, d \in DeviceIds : RecvBleUnsubscribe(c, d, <<"2a37">>)
    \/ \E e \in 1..MaxExec : HandlerResolve(e, Obj)
    \/ \E op \in cancelOps : CancelResolve(op)
    \/ \E op \in cancelOps : CancelReject(op)
    \/ \E op \in bleOps : BleResolve(op)
    \/ \E op \in bleOps : BleReject(op)
    \/ \E c \in Conns : SocketClose(c)

\* every collaborator call and every cancel capability that is awaited
\* settles
Settling ==
    /\ WF_vars(\E op \in bleOps : BleResolve(op) \/ BleReject(op))
    /\ WF_vars(\E op \in cancelOps : CancelResolve(op) \/ CancelReject(op))

SpecRespond == Init /\ [][NextRespond]_vars /\ Settling

\* ble-manager: discovery, connectDevice and disconnectDevice, and the
\* events and callbacks of the peripherals
NextManager ==
    \/ \E p \in PeripheralIds : Discover(p)
    \/ \E p \in PeripheralIds : ConnectDevice(p)
    \/ \E p \in PeripheralIds : EmitConnect(p)
    \/ \E i \in 1..MaxCalls : ConnectError(i)
    \/ \E p \in PeripheralIds : EmitDisconnect(p)
    \/ \E i \in 1..MaxCalls : DiscoverOk(i)
    \/ \E i \in 1..MaxCalls : DiscoverError(i)
    \/ \E p \in PeripheralIds : DisconnectDevice(p)
    \/ \E i \in 1..MaxCalls : DisconnectError(i)

SpecManager == Init /\ [][NextManager]_vars

\* the HTTP server: its connect, disconnect, subscribe and unsubscribe
\* routes over ble-manager
NextHttp ==
    \/ \E p \in PeripheralIds : Discover(p)
    \/ \E p \in PeripheralIds : HttpConnect(p)
    \/ \E p \in PeripheralIds : EmitConnect(p)
    \/ \E i \in 1..MaxCalls : DiscoverOk(i)
    \/ \E p \in PeripheralIds, u \in CharUuids : HttpSubscribe(p, u)
    \/ \E key \in httpOps : HttpSubscribeOk(key)
    \/ \E key \in httpOps, status \in {404, 500} : HttpSubscribeFail(key, status)
    \/ \E p \in PeripheralIds, u \in CharUuids : HttpUnsubscribe(p, u)
    \/ \E key \in httpOps : HttpUnsubscribeOk(key)
    \/ \E key \in httpOps : HttpUnsubscribeFail(key)
    \/ \E p \in PeripheralIds : HttpDisconnect(p)
    \/ \E p \in PeripheralIds : EmitDisconnect(p)

SpecHttp == Init /\ [][NextHttp]_vars

\* device-list requests to the MCP server and to the legacy server while
\* peripherals are discovered, no secret configured
NextDevices ==
    \/ \E p \in PeripheralIds : Discover(p)
    \/ \E c \in Conns : Connect(c)
    \/ \E c \in Conns : RecvBleDevices(c)
    \/ \E op \in bleOps : BleResolve(op)
    \/ \E c \in Conns : LegacyConnect(c)
    \/ \E c \in Conns, cmd \in LegacyCmds, id \in LegacyIds :
          LegacyHandleMessage(c, cmd, id, NoToken)
    \/ \E op \in legacy.ops : LegacyResolve(op)

SpecDevices == Init /\ [][NextDevices]_vars

(* ------------------------------- claims ------------------------------- *)

Terminal == {"completed", "failed", "cancelled"}

IsEventOf(env, e) == env.type = "mcp.tool.event" /\ env.execId = e

IsStartedOf(env, e) == env.type = "mcp.tool.execute.started" /\ env.execId = e

LastOf(seq) == seq[Len(seq)]

\* the step handles an envelope of this type
Handles(type) == nreq' = nreq + 1 /\ NormalizeType(lastMsg'.type) = type

\* the terminal broadcasts of an execution so far
TerminalEvents(e) == {k \in DOMAIN events[e] : events[e][k].event \in Terminal}

\* C1: on every connection, the mcp.tool.execute.started response carrying
\* an execId is written before any mcp.tool.event (progress, completed,
\* failed) for that execId.
C1_StartedBeforeEvents ==
    \A c \in Conns : \A i, j \in DOMAIN out[c] : \A e \in DOMAIN executions :
        IsStartedOf(out[c][i], e) /\ IsEventOf(out[c][j], e) => i < j

\* C2: at most one terminal event (completed, failed or cancelled) is ever
\* broadcast for an execution.
C2_AtMostOneTerminalEvent ==
    \A e \in DOMAIN events : Cardinality(TerminalEvents(e)) <= 1

\* C3: no step changes the status of a record whose status is completed,
\* failed or cancelled; a status only ever leaves running.
C3_StatusOneWay ==
    [][\A e \in DOMAIN executions :
          executions[e].status \in Terminal
              => executions'[e].status = executions[e].status]_vars

\* C4: on no connection is a progress event of an execution written after
\* a terminal event (completed, failed or cancelled) of that execution.
C4_NoProgressAfterTerminal ==
    \A c \in Conns : \A i, j \in DOMAIN out[c] : \A e \in DOMAIN executions :
        /\ IsEventOf(out[c][i], e) /\ out[c][i].event \in Terminal
        /\ IsEventOf(out[c][j], e) /\ out[c][j].event = "progress"
        => j < i

\* C5: mcp.exec.cancel on a known execId whose record carries no cancel
\* capability, or whose status is already terminal, is answered with
\* not_cancellable, invokes no cancel capability, broadcasts no event and
\* leaves the record unchanged.
C5_NotCancellable ==
    [][\A e \in DOMAIN executions :
          /\ Handles("mcp.exec.cancel")
          /\ lastMsg'.payload.execId = e
          /\ (~executions[e].cancelFn \/ executions[e].status \in Terminal)
          => /\ out' = Write(out, lastMsg'.conn, ErrorEnv(lastMsg'.id, "not_cancellable"))
             /\ cancelCalls' = cancelCalls
             /\ cancelOps' = cancelOps
             /\ events' = events
             /\ executions' = executions]_vars

\* the tool's handler hands over a cancel capability
SupportsCancel(toolId) == tools[toolId].handler = "cancelable"

\* C6: an execution whose tool supports cancellation can be cancelled
\* before it completes: mcp.exec.cancel sent while the record's status is
\* running invokes the cancel capability.
C6_CancelWhileRunning ==
    [][\A e \in DOMAIN executions :
          /\ Handles("mcp.exec.cancel")
          /\ lastMsg'.payload.execId = e
          /\ executions[e].status = "running"
          /\ SupportsCancel(executions[e].toolId)
          => cancelCalls'[e].invoked = cancelCalls[e].invoked + 1]_vars

\* what the code does instead (C6): no record is running while it carries a
\* cancel capability, and no record goes from running to cancelled
RunningIsNeverCancellable ==
    \A e \in DOMAIN executions : executions[e].status = "running" => ~executions[e].cancelFn

\* the request whose cancel capability fails in this step: one that awaited
\* it, or the one handled in this step
FailedCancelOf(e, c, id) ==
    \/ \E op \in cancelOps \ cancelOps' : op.execId = e /\ op.conn = c /\ op.id = id
    \/ /\ Handles("mcp.exec.cancel")
       /\ lastMsg'.payload.execId = e /\ lastMsg'.conn = c /\ lastMsg'.id = id

\* C7: when the cancel capability invoked by mcp.exec.cancel fails, the
\* requester gets mcp/error cancel_failed and nothing else is written, no
\* event is broadcast and no record changes.
C7_CancelFailed ==
    [][\A e \in DOMAIN executions :
          cancelCalls'[e].failed > cancelCalls[e].failed
          => /\ executions' = executions
             /\ events' = events
             /\ \E c \in Conns, id \in 1..MaxReq :
                   /\ FailedCancelOf(e, c, id)
                   /\ out' = Write(out, c, ErrorEnv(id, "cancel_failed"))]_vars

\* a cancel capability failed after the handler completed, and the
\* requester's last envelope is the cancel_failed error
C7_Witness ==
    \E e \in DOMAIN executions, c \in Conns :
        /\ cancelCalls[e].failed > 0
        /\ executions[e].status = "completed"
        /\ out[c] # <<>>
        /\ LastOf(out[c]).code = "cancel_failed"

\* C8: once a completed (or failed) event has been broadcast for an execId,
\* every mcp.exec.status for that execId returns as result the data that
\* event carried.
C8_StatusMatchesEvent ==
    [][\A e \in DOMAIN executions :
          Handles("mcp.exec.status") /\ lastMsg'.payload.execId = e
          => LET resp == LastOf(out'[lastMsg'.conn])
             IN  /\ resp.type = "mcp.exec.status.result"
                 /\ resp.id = lastMsg'.id
                 /\ resp.execId = e
                 /\ \A k \in DOMAIN events[e] :
                       events[e][k].event \in {"completed", "failed"}
                           => resp.data = events[e][k].data]_vars

\* a status response written after the completed event of a handler that
\* handed over a falsy result together with a cancel capability
C8_Witness ==
    \E c \in Conns, e \in DOMAIN executions :
        /\ out[c] # <<>>
        /\ LastOf(out[c]).type = "mcp.exec.status.result"
        /\ LastOf(out[c]).execId = e
        /\ executions[e].cancelFn
        /\ \E k \in DOMAIN events[e] :
              events[e][k].event = "completed" /\ events[e][k].data = Null

\* C9: once a connection has been torn down (close or error) it is in no
\* subscriber set; the teardown changes no Execution Record; and a record
\* whose handler has settled has a terminal status.
C9_TeardownUnsubscribes ==
    [][/\ \A c \in Conns : cstate'[c] \in {"errored", "closed"}
              => \A e \in DOMAIN execSubscribers' : c \notin execSubscribers'[e]
       /\ \A c \in Conns : cstate'[c] # cstate[c] /\ cstate[c] # "idle"
              => executions' = executions
       /\ \A e \in DOMAIN executions' :
              handlers'[e].phase = "settled" => executions'[e].status \in Terminal]_vars

\* a connection was torn down while it was in the subscriber set of a
\* running execution (as its initiator, never unsubscribed), and the
\* execution completed afterwards
C9_Witness ==
    \E c \in Conns, e \in DOMAIN executions :
        /\ cstate[c] = "closed"
        /\ \E i \in DOMAIN out[c] : IsStartedOf(out[c][i], e)
        /\ \A i \in DOMAIN out[c] : out[c][i].type # "mcp.exec.unsubscribe.ack"
        /\ \A i \in DOMAIN out[c] : out[c][i].event \notin Terminal
        /\ executions[e].status = "completed"

\* C10: with a secret configured, an envelope of a type other than mcp/auth
\* on a connection not yet authenticated is answered with
\* authentication_required and nothing else happens: no handler runs, no
\* BLE collaborator call is made, no execution record, subscriber set or
\* listener map changes.
C10_AuthenticationRequired ==
    [][\A c \in Conns :
          /\ nreq' = nreq + 1
          /\ lastMsg'.conn = c
          /\ authToken # NoToken
          /\ ~authed[c]
          /\ NormalizeType(lastMsg'.type) # "mcp/auth"
          => /\ out' = [out EXCEPT ![c] =
                           Append(@, ErrorEnv(lastMsg'.id, "authentication_required"))]
             /\ UNCHANGED <<nprogress, executions, execSubscribers, handlers, events,
                            cancelOps, cancelCalls, subscriptions, bleOps,
                            bleListeners, bleCalls, nlisten, authed>>]_vars

\* an execute request refused on one connection while another connection
\* is authenticated
C10_Witness ==
    \E c, d \in Conns :
        /\ authToken # NoToken
        /\ ~authed[c] /\ authed[d]
        /\ lastMsg.conn = c
        /\ lastMsg.type = "mcp.tool.execute"
        /\ LastOf(out[c]).code = "authentication_required"

\* the envelopes a step writes to a connection
Written(c) == SubSeq(out'[c], Len(out[c]) + 1, Len(out'[c]))

\* C11: with a secret configured, an mcp/auth envelope on a connection not
\* yet authenticated is answered with invalid_token and leaves every flag as
\* it is when its token differs from the secret, whatever happened before;
\* with the secret as its token it marks the connection authenticated and is
\* answered with mcp/auth.ok.
C11_InvalidTokenThenRetry ==
    [][\A c \in Conns :
          /\ nreq' = nreq + 1
          /\ lastMsg'.conn = c
          /\ authToken # NoToken
          /\ ~authed[c]
          /\ NormalizeType(lastMsg'.type) = "mcp/auth"
          => IF lastMsg'.payload.token = authToken
             THEN /\ authed' = [authed EXCEPT ![c] = TRUE]
                  /\ Written(c) = <<ResultEnv("mcp/auth.ok", lastMsg'.id)>>
             ELSE /\ authed' = authed
                  /\ Written(c) = <<ErrorEnv(lastMsg'.id, "invalid_token")>>]_vars

\* a connection authenticated with the secret after a wrong token was
\* refused on it
C11_Witness ==
    \E c \in Conns : \E i, j \in DOMAIN out[c] :
        /\ i < j
        /\ out[c][i].code = "invalid_token"
        /\ out[c][j].type = "mcp/auth.ok"
        /\ authed[c]

\* C12: an authenticated connection stays authenticated, and no envelope
\* written to it afterwards is an authentication_required or invalid_token
\* error.
C12_StaysAuthenticated ==
    [][\A c \in Conns :
          authed[c]
          => /\ authed'[c]
             /\ \A i \in DOMAIN Written(c) :
                   Written(c)[i].code \notin {"authentication_required", "invalid_token"}]_vars

\* an authenticated connection sent mcp/auth again with a wrong token and
\* was answered by the dispatcher
C12_Witness ==
    \E c \in Conns :
        /\ authed[c]
        /\ lastMsg.conn = c
        /\ NormalizeType(lastMsg.type) = "mcp/auth"
        /\ lastMsg.payload.token # authToken
        /\ LastOf(out[c]).code = "unsupported_command"

\* C13: registerTool throws when the tool id is missing or already
\* registered and then leaves the registry as it is; otherwise it returns
\* the id and adds the id with the given metadata and handler, leaving every
\* other entry as it is.
C13_RegisterTool ==
    [][regResult' # regResult \/ tools' # tools
          => LET call == regResult' IN
             IF call.id = "" \/ call.id \in DOMAIN tools
             THEN /\ call.threw = IF call.id = "" THEN "tool_def_missing_id"
                                                 ELSE "tool_already_registered"
                  /\ call.returned = ""
                  /\ tools' = tools
             ELSE /\ call.threw = ""
                  /\ call.returned = call.id
                  /\ DOMAIN tools' = DOMAIN tools \cup {call.id}
                  /\ tools'[call.id] = [meta |-> call.meta, handler |-> call.handler]
                  /\ \A t \in DOMAIN tools : tools'[t] = tools[t]]_vars

\* an id was registered a second time with other metadata and another
\* handler: the call threw and the registry holds the first registration
C13_Witness ==
    /\ regResult.threw = "tool_already_registered"
    /\ regResult.id \in DOMAIN tools
    /\ tools[regResult.id].meta # regResult.meta
    /\ tools[regResult.id].handler # regResult.handler

\* the positions of the line feeds of a text, and the k-th of them
Newlines(t) == {i \in DOMAIN t : t[i] = "\n"}

NthNewline(t, k) ==
    CHOOSE i \in Newlines(t) : Cardinality({j \in Newlines(t) : j <= i}) = k

\* the text between the (k-1)-th and the k-th line feed, trimmed
NthLine(t, k) ==
    Trim(SubSeq(t, IF k = 1 THEN 1 ELSE NthNewline(t, k - 1) + 1, NthNewline(t, k) - 1))

NonEmpty(line) == line # <<>>

\* the records of a text: its newline-terminated lines, trimmed, without the
\* empty ones
RecordsOf(t) ==
    SelectSeq([k \in 1..Cardinality(Newlines(t)) |-> NthLine(t, k)], NonEmpty)

\* the characters after the last line feed of a text
RemainderOf(t) ==
    IF Newlines(t) = {} THEN t
    ELSE SubSeq(t, NthNewline(t, Cardinality(Newlines(t))) + 1, Len(t))

\* C14: the records handed to message handling for a connection are the
\* newline-terminated lines of the concatenation of the characters received,
\* in order, however they were split into reads, and the characters after
\* the last line feed are kept in the buffer.
C14_FramingIgnoresSplits ==
    \A c \in Conns :
        /\ lines[c] = RecordsOf(Concat(reads[c]))
        /\ buffer[c] = RemainderOf(Concat(reads[c]))

\* a connection got a line without its line feed in one read, and in the
\* next read the line feed together with a whole second line: two records
\* were handed over, the first of them what the first read brought
C14_Witness ==
    \E c \in Conns :
        /\ Len(reads[c]) = 2
        /\ Newlines(reads[c][1]) = {}
        /\ Cardinality(Newlines(reads[c][2])) = 2
        /\ Len(lines[c]) = 2
        /\ lines[c][1] = reads[c][1]

\* the records a step hands to _handleMessage for a connection
HandedOver(c) == SubSeq(lines'[c], Len(lines[c]) + 1, Len(lines'[c]))

\* C15: every record that does not decode to an object (text that is no
\* JSON, or JSON that is no object: null, a number) produces exactly one
\* mcp/error with id null and code invalid_json and leaves the connection
\* open; whitespace-only records produce nothing.
C15_InvalidJson ==
    [][\A c \in Conns :
          reads'[c] # reads[c]
          => /\ Written(c) = [i \in DOMAIN HandedOver(c) |-> ErrorEnv(0, "invalid_json")]
             /\ cstate'[c] = "open"]_vars

\* what the code does (C15): one invalid_json for every record JSON.parse
\* throws on, and nothing for an empty or whitespace-only line
InvalidTextIsAnswered ==
    [][\A c \in Conns :
          /\ reads'[c] # reads[c]
          /\ \A i \in DOMAIN HandedOver(c) : Decode(HandedOver(c)[i]) = "invalid"
          => /\ Written(c) = [i \in DOMAIN HandedOver(c) |-> ErrorEnv(0, "invalid_json")]
             /\ cstate'[c] = "open"]_vars

\* C16: the mcp/handshake envelope is the first envelope written to every
\* accepted connection, written on accept, and it is written once; nothing
\* is written to a socket not yet accepted.
C16_HandshakeFirst ==
    \A c \in Conns :
        IF cstate[c] = "idle"
        THEN out[c] = <<>>
        ELSE /\ out[c] # <<>>
             /\ \A i \in DOMAIN out[c] : (out[c][i].type = "mcp/handshake") <=> (i = 1)

\* a connection that got, after its handshake, a response, a tool event and
\* a BLE notification
C16_Witness ==
    \E c \in Conns :
        /\ out[c] # <<>>
        /\ out[c][1].type = "mcp/handshake"
        /\ \E i \in DOMAIN out[c] : out[c][i].type = "mcp.tool.execute.started"
        /\ \E i \in DOMAIN out[c] : out[c][i].type = "mcp.tool.event"
        /\ \E i \in DOMAIN out[c] : out[c][i].type = "mcp.ble.notification"

\* the events of an execution a step broadcasts
Broadcasts(e) ==
    LET before == IF e \in DOMAIN events THEN Len(events[e]) ELSE 0
    IN  SubSeq(events'[e], before + 1, Len(events'[e]))

\* the subscriber set those broadcasts go to (the set of a new execution is
\* created before its handler is called)
SubscribersAtBroadcast(e) ==
    IF e \in DOMAIN execSubscribers THEN execSubscribers[e] ELSE execSubscribers'[e]

\* the events of an execution a step writes to a connection
EventsWritten(c, e) == SelectSeq(Written(c), LAMBDA env : IsEventOf(env, e))

\* C17: each broadcast event of an execution is written exactly once to
\* each connection that is in the execution's subscriber set at the moment
\* of the broadcast, and to no other connection.
C17_ExactlyOncePerSubscriber ==
    [][\A e \in DOMAIN events' : \A c \in Conns :
          EventsWritten(c, e) =
              IF c \in SubscribersAtBroadcast(e)
              THEN [i \in DOMAIN Broadcasts(e) |->
                       EventEnv(Broadcasts(e)[i].event, e, Broadcasts(e)[i].data)]
              ELSE <<>>]_vars

\* the initiator got a progress event and the completed event, once each;
\* another connection, connected all the time, subscribed afterwards and got
\* none of them
C17_Witness ==
    \E c, d \in Conns : \E e \in DOMAIN executions :
        /\ c # d
        /\ \E i \in DOMAIN out[c] : IsStartedOf(out[c][i], e)
        /\ Cardinality({i \in DOMAIN out[c] :
                           IsEventOf(out[c][i], e) /\ out[c][i].event = "completed"}) = 1
        /\ Cardinality({i \in DOMAIN out[c] : IsEventOf(out[c][i], e)}) = 2
        /\ cstate[d] = "open"
        /\ \E i \in DOMAIN out[d] : out[d][i].type = "mcp.exec.subscribe.ack"
        /\ \A i \in DOMAIN out[d] : ~IsEventOf(out[d][i], e)

\* C18: a notification the collaborator delivers to a listener is written
\* as mcp.ble.notification to the connection whose mcp.ble.subscribe
\* created the listener, and nothing is written to any other connection.
C18_NotificationToSubscriberOnly ==
    [][\A reg \in bleListeners :
          notified' = Append(notified, reg.listener)
          => \A d \in Conns :
                Written(d) = IF d = reg.conn /\ cstate[d] = "open"
                             THEN <<ResultEnv("mcp.ble.notification", 0)>>
                             ELSE <<>>]_vars

\* two connections hold listeners for the same device and characteristic;
\* a notification went through the listener of one of them, which got it,
\* and the other got none
C18_Witness ==
    \E r1, r2 \in bleListeners :
        /\ r1.conn # r2.conn
        /\ r1.deviceId = r2.deviceId
        /\ r1.characteristicUuid = r2.characteristicUuid
        /\ notified = <<r1.listener>>
        /\ cstate[r2.conn] = "open"
        /\ LastOf(out[r1.conn]).type = "mcp.ble.notification"
        /\ \A i \in DOMAIN out[r2.conn] : out[r2.conn][i].type # "mcp.ble.notification"

\* the listener of a registration is recorded in a connection's listener map
Recorded(reg, map) == \E e \in map.entries : e.listener = reg.listener

\* C19: while a connection stays open, no step (a repeated mcp.ble.subscribe
\* for the same key included) makes a listener of the connection that is
\* registered with the collaborator and recorded in the listener map
\* unrecorded without deregistering it.
C19_NoListenerLeaked ==
    [][\A reg \in bleListeners :
          /\ Recorded(reg, subscriptions[reg.conn])
          /\ cstate'[reg.conn] = "open"
          => \/ reg \notin bleListeners'
             \/ Recorded(reg, subscriptions'[reg.conn])]_vars

\* the unsubscribe calls a step's _cleanSubscriptions makes
NewCleanCalls == cleanCalls' \ cleanCalls

\* C20: when a connection closes or errors, an unsubscribe is issued to the
\* collaborator for every listener recorded in its listener map, and for no
\* other; the map is emptied; what the unsubscribes that did not fail name
\* is deregistered whichever other ones failed; and the connection leaves
\* the client set and every subscriber set.
C20_TeardownDeregistersAll ==
    [][\A c \in Conns :
          cstate'[c] # cstate[c] /\ cstate'[c] \in {"errored", "closed"}
          => /\ {call.reg.listener : call \in NewCleanCalls} =
                    {e.listener : e \in subscriptions[c].entries}
             /\ Cardinality(NewCleanCalls) = Cardinality(subscriptions[c].entries)
             /\ bleCalls' = bleCalls + Cardinality(subscriptions[c].entries)
             /\ subscriptions'[c].entries = {}
             /\ bleListeners' =
                    bleListeners \ {call.reg : call \in {k \in NewCleanCalls : ~k.failed}}
             /\ c \notin clients'
             /\ \A e \in DOMAIN execSubscribers' : c \notin execSubscribers'[e]]_vars

\* a connection closed with two recorded listeners; the unsubscribe of one
\* failed, the other listener is deregistered, the map and the connection
\* are gone
C20_Witness ==
    \E c \in Conns : \E k1, k2 \in cleanCalls :
        /\ cstate[c] = "closed"
        /\ k1.reg.conn = c /\ k2.reg.conn = c
        /\ k1.failed /\ ~k2.failed
        /\ k1.reg \in bleListeners
        /\ k2.reg \notin bleListeners
        /\ subscriptions[c] = NoMap
        /\ c \notin clients

\* a step tears connection c down: its close or error handler runs
TornDown(c) ==
    /\ cstate[c] \in {"open", "errored"}
    /\ cstate'[c] \in {"errored", "closed"}
    /\ cstate'[c] # cstate[c]

\* C21: tearing down one connection (close or socket error) leaves every
\* other connection's authentication flag, BLE listener map and membership
\* of every subscriber set, and every Execution Record, as they were
C21_TeardownIsLocal ==
    [][\A c \in Conns :
          TornDown(c) =>
             /\ executions' = executions
             /\ DOMAIN execSubscribers' = DOMAIN execSubscribers
             /\ \A d \in Conns \ {c} :
                   /\ authed'[d] = authed[d]
                   /\ subscriptions'[d] = subscriptions[d]
                   /\ \A e \in DOMAIN execSubscribers :
                         (d \in execSubscribers'[e]) <=> (d \in execSubscribers[e])]_vars

\* C21 witness: one connection is torn down while another one is open,
\* authenticated, and subscribed to an execution that has a record
C21_Witness ==
    \E c \in Conns : \E d \in Conns \ {c} :
        /\ cstate[c] \in {"errored", "closed"}
        /\ cstate[d] = "open"
        /\ authed[d]
        /\ \E e \in DOMAIN executions : d \in execSubscribers[e]

\* the ids of the direct responses written to c, in the order written
\* (events, notifications and the handshake carry no request id)
ResponseIds(c) ==
    LET answers == SelectSeq(out[c], LAMBDA env : env.id # 0)
    IN  [i \in 1..Len(answers) |-> answers[i].id]

\* C22: on one connection envelopes are processed strictly in receipt
\* order: the direct response of a later envelope is never written before
\* the one of an earlier envelope, also when the earlier one awaits a BLE
\* collaborator call (request ids are given in receipt order)
C22_ReceiptOrder ==
    \A c \in Conns :
        \A i, j \in 1..Len(ResponseIds(c)) :
            i < j => ResponseIds(c)[i] < ResponseIds(c)[j]

\* the handler of execution e throws or rejects in this step
HandlerFails(e) ==
    /\ handlers'[e].error # ""
    /\ e \in DOMAIN handlers => handlers[e].error = ""

\* C23: when a tool handler throws or rejects, the record's status becomes
\* failed and its result {error: message}; exactly one failed event with
\* that payload is broadcast, each connection of the subscriber set gets it
\* once, and no mcp/error envelope is written to any connection
C23_HandlerFailure ==
    [][\A e \in DOMAIN handlers' :
          HandlerFails(e) =>
             LET payload == ErrorResult(handlers'[e].error)
                 failed == SelectSeq(Broadcasts(e), LAMBDA ev : ev.event = "failed")
             IN  /\ executions'[e].status = "failed"
                 /\ executions'[e].result = payload
                 /\ failed = <<[event |-> "failed", data |-> payload]>>
                 /\ LastOf(Broadcasts(e)) = failed[1]
                 /\ \A c \in Conns :
                       /\ SelectSeq(EventsWritten(c, e), LAMBDA env : env.event = "failed")
                             = IF c \in SubscribersAtBroadcast(e) /\ cstate[c] = "open"
                               THEN <<EventEnv("failed", e, payload)>>
                               ELSE <<>>
                       /\ \A i \in DOMAIN Written(c) : Written(c)[i].type # "mcp/error"]_vars

\* C23 witness: a handler rejected after its first suspension point while
\* two connections were subscribed; both hold the failed event, the record
\* is failed with the error payload, and no connection holds an mcp/error
C23_Witness ==
    \E e \in DOMAIN executions : \E c \in Conns : \E d \in Conns \ {c} :
        /\ handlers[e].error # ""
        /\ executions[e].status = "failed"
        /\ executions[e].result = ErrorResult(handlers[e].error)
        /\ {c, d} \subseteq execSubscribers[e]
        /\ \A s \in {c, d} :
              /\ LastOf(out[s]) = EventEnv("failed", e, executions[e].result)
              /\ \A i \in DOMAIN out[s] : out[s][i].type # "mcp/error"
        /\ \E i \in DOMAIN out[c] : IsStartedOf(out[c][i], e)
        /\ \E i \in DOMAIN out[d] : out[d][i].type = "mcp.exec.subscribe.ack"

\* C29: an mcp.tool.execute request (past the authentication gate) whose
\* toolId is missing or not registered is answered with one mcp/error,
\* missing_toolId or tool_not_found, and has no other effect: no execId is
\* allocated, no record or subscriber set is created, no handler is invoked
C29_ExecuteWithoutTool ==
    [][\A c \in Conns :
          /\ nreq' = nreq + 1
          /\ lastMsg'.conn = c
          /\ ~AuthRequired(c)
          /\ lastMsg'.type = "mcp.tool.execute"
          /\ lastMsg'.payload.toolId \notin DOMAIN tools
          => /\ out' = [out EXCEPT ![c] =
                           Append(@, ErrorEnv(lastMsg'.id,
                                              IF lastMsg'.payload.toolId = ""
                                              THEN "missing_toolId"
                                              ELSE "tool_not_found"))]
             /\ UNCHANGED <<nprogress, executions, execSubscribers, handlers, events,
                            cancelOps, cancelCalls, subscriptions, bleOps,
                            bleListeners, bleCalls, nlisten, authed, tools>>]_vars

\* C29 witness: an authenticated connection asked for a tool the registry
\* does not hold and got tool_not_found; there is no execution
C29_Witness ==
    \E c \in Conns :
        /\ authed[c]
        /\ lastMsg.conn = c
        /\ lastMsg.type = "mcp.tool.execute"
        /\ lastMsg.payload.toolId = "nope"
        /\ LastOf(out[c]) = ErrorEnv(lastMsg.id, "tool_not_found")
        /\ executions = <<>>

\* a step handles a request of the given type from c for execution e
Requests(c, type, e) ==
    /\ nreq' = nreq + 1
    /\ lastMsg'.conn = c
    /\ lastMsg'.type = type
    /\ lastMsg'.payload.execId = e

\* C30: mcp.exec.subscribe for an unknown execId fails with
\* execution_not_found and changes no subscriber set; for a known execId
\* subscribing leaves the set with the connection added, the same set when
\* it was in it already, and mcp.exec.unsubscribe leaves the set with the
\* connection removed, the same set when it was absent already
C30_SubscribeIdempotent ==
    [][\A c \in Conns : \A e \in 1..MaxExec :
          /\ Requests(c, "mcp.exec.subscribe", e) =>
                IF e \in DOMAIN executions
                THEN /\ execSubscribers' = [execSubscribers EXCEPT ![e] = @ \cup {c}]
                     /\ c \in execSubscribers[e] => execSubscribers' = execSubscribers
                     /\ LastOf(Written(c)).type = "mcp.exec.subscribe.ack"
                ELSE /\ execSubscribers' = execSubscribers
                     /\ Written(c) = <<ErrorEnv(lastMsg'.id, "execution_not_found")>>
          /\ Requests(c, "mcp.exec.unsubscribe", e) /\ e \in DOMAIN executions =>
                /\ execSubscribers' = [execSubscribers EXCEPT ![e] = @ \ {c}]
                /\ c \notin execSubscribers[e] => execSubscribers' = execSubscribers]_vars

\* C30 witness: the initiator of an execution subscribed to it again: it
\* is acknowledged and the set still holds the initiator alone
C30_Witness ==
    \E c \in Conns : \E e \in DOMAIN executions :
        /\ nreq = 2
        /\ lastMsg.conn = c
        /\ lastMsg.type = "mcp.exec.subscribe"
        /\ lastMsg.payload.execId = e
        /\ IsStartedOf(out[c][2], e)
        /\ LastOf(out[c]).type = "mcp.exec.subscribe.ack"
        /\ execSubscribers[e] = {c}

\* the summaries of the peripherals the BLE collaborator has discovered
CurrentDevices ==
    [i \in DOMAIN discoveredPeripherals |->
        [id |-> discoveredPeripherals[i], state |-> pstate[discoveredPeripherals[i]]]]

\* the lines a step of the legacy server writes to a connection
LegacyWritten(c) ==
    SubSeq(legacy'.out[c], Len(legacy.out[c]) + 1, Len(legacy'.out[c]))

\* a step handles a device-list request of c: an envelope of type
\* mcp.ble.devices, or a legacy command that is listDevices or devices in
\* any case
AsksForDevices(c) ==
    /\ nreq' = nreq + 1
    /\ \/ /\ lastMsg'.id = nreq'
          /\ lastMsg'.conn = c
          /\ lastMsg'.type = "mcp.ble.devices"
       \/ /\ legacy'.last.n = nreq'
          /\ legacy'.last.conn = c
          /\ legacy'.last.cmd \in {"listDevices", "LISTDEVICES", "devices"}

C25_NoDuplicates ==
    /\ \A i, j \in DOMAIN discoveredPeripherals :
          i # j => discoveredPeripherals[i] # discoveredPeripherals[j]
    /\ Len(discoveredPeripherals) <= ndiscover

\* C25 witness: two discover events for the same peripheral, one entry
C25_Witness ==
    /\ ndiscover = 2
    /\ discoveredPeripherals = <<"p1">>

\* a step in which connectDevice(p) is called
ConnectCalled(p) ==
    /\ Len(calls') = Len(calls) + 1
    /\ LastOf(calls').op = "connect"
    /\ LastOf(calls').pid = p

\* C26: connectDevice on a peripheral that is already connected (an earlier
\* connectDevice for it succeeded and it was not disconnected since) rejects
\* with 'Peripheral already connected or connecting' and starts no second
\* connection attempt
C26_RejectsWhenConnected ==
    [][\A p \in PeripheralIds :
          ConnectCalled(p) /\ p \in established /\ pstate[p] = "connected" =>
             /\ LastOf(calls').outcome = "rejected"
             /\ LastOf(calls').msg = "Peripheral already connected or connecting"
             /\ pstate' = pstate]_vars

DisconnectedThroughRoute(p) ==
    \E i \in DOMAIN calls :
        /\ calls[i].op = "disconnect"
        /\ calls[i].pid = p
        /\ calls[i].outcome = "pending"
        /\ calls'[i].outcome = "resolved"

\* C28: in the HTTP server, once a device has been disconnected through
\* POST /ble/devices/:deviceId/disconnect, activeSubscriptions holds no
\* entry for any characteristic of that device
C28_CleanedOnDisconnect ==
    [][\A p \in PeripheralIds :
          DisconnectedThroughRoute(p) =>
             \A key \in activeSubscriptions' : key.deviceId # p]_vars

\* the handlers of a connection's 'error' or 'close' event run
Teardown(c) ==
    /\ cstate'[c] # cstate[c]
    /\ cstate'[c] \in {"errored", "closed"}

\* C31: when a write to one subscriber fails during a broadcast, the event
\* is still written to every other connection of the subscriber set and the
\* set is left as it was; a connection leaves a subscriber set only by its
\* own mcp.exec.unsubscribe for that execution or by its teardown.
C31_BroadcastSurvivesFailedWrite ==
    [][\A e \in DOMAIN events' :
          /\ Broadcasts(e) # <<>> =>
                /\ \A c \in SubscribersAtBroadcast(e) :
                       cstate[c] = "open" =>
                          EventsWritten(c, e) =
                              [i \in DOMAIN Broadcasts(e) |->
                                  EventEnv(Broadcasts(e)[i].event, e, Broadcasts(e)[i].data)]
                /\ execSubscribers'[e] = SubscribersAtBroadcast(e)
          /\ e \in DOMAIN execSubscribers =>
                \A c \in execSubscribers[e] \ execSubscribers'[e] :
                    Requests(c, "mcp.exec.unsubscribe", e) \/ Teardown(c)]_vars

\* two subscribers got the progress event; then the socket of one failed, the
\* completed event was written to the other only, and the failed one is
\* still in the set
C31_Witness ==
    \E c, d \in Conns : \E e \in DOMAIN executions :
        /\ c # d
        /\ {c, d} \subseteq execSubscribers[e]
        /\ cstate[c] = "open" /\ cstate[d] = "broken"
        /\ \E i \in DOMAIN out[d] : IsEventOf(out[d][i], e) /\ out[d][i].event = "progress"
        /\ \A i \in DOMAIN out[d] : IsEventOf(out[d][i], e) => out[d][i].event # "completed"
        /\ \E i \in DOMAIN out[c] : IsEventOf(out[c][i], e) /\ out[c][i].event = "completed"

\* the handler of execution e has resolved
Resolved(e) == handlers[e].phase = "settled" /\ handlers[e].error = ""

\* C32: on handler success the stored result equals the value the handler
\* produced: the accompanying result value when the resolved value exposes a
\* cancel capability (whatever that value is, 0, false and the empty string
\* included), the resolved value itself otherwise; and the completed event
\* carries the stored result.
C32_StoredResultIsHandlerValue ==
    \A e \in DOMAIN executions :
        Resolved(e) =>
            /\ executions[e].result = handlers[e].value
            /\ \E k \in DOMAIN events[e] :
                   /\ events[e][k].event = "completed"
                   /\ events[e][k].data = executions[e].result

\* the mcp.exec.status.result envelopes written so far that report e
StatusReports(e) ==
    {env \in UNION {{out[c][i] : i \in DOMAIN out[c]} : c \in Conns} :
        env.type = "mcp.exec.status.result" /\ env.execId = e}

\* C33: in every reachable state an Execution Record whose status is running
\* has result null, and no mcp.exec.status.result reports a non-null result
\* together with the state running.
C33_RunningHasNoResult ==
    \A e \in DOMAIN executions :
        /\ executions[e].status = "running" => executions[e].result = Null
        /\ \A env \in StatusReports(e) : env.event = "running" => env.data = Null

\* a status request was answered while the handler was pending, and the
\* record is still running
C33_Witness ==
    \E e \in DOMAIN executions :
        /\ executions[e].status = "running"
        /\ handlers[e].phase = "pending"
        /\ \E env \in StatusReports(e) : env.event = "running"

\* the execIds some connection got in an mcp.tool.execute.started
Started == {e \in DOMAIN executions :
               \E c \in Conns : \E i \in DOMAIN out[c] : IsStartedOf(out[c][i], e)}

\* C34: Execution Records and their subscriber sets are never removed: once
\* an execId was returned in execute.started, no mcp.exec.status and no
\* mcp.exec.subscribe for it is answered with execution_not_found, whatever
\* connections close and whatever status the execution reaches.
C34_RecordsAreRetained ==
    [][/\ DOMAIN executions \subseteq DOMAIN executions'
       /\ DOMAIN execSubscribers \subseteq DOMAIN execSubscribers'
       /\ \A e \in Started : \A c \in Conns :
              Requests(c, "mcp.exec.status", e) \/ Requests(c, "mcp.exec.subscribe", e)
              => /\ Len(Written(c)) = 1
                 /\ Written(c)[1].type \in {"mcp.exec.status.result", "mcp.exec.subscribe.ack"}
                 /\ Written(c)[1].execId = e]_vars

\* the initiator of an execution was torn down, the execution finished, and
\* another connection then got its status
C34_Witness ==
    \E e \in Started : \E c \in Conns : \E d \in Conns \ {c} :
        /\ cstate[c] \in {"errored", "closed"}
        /\ \E i \in DOMAIN out[c] : IsStartedOf(out[c][i], e)
        /\ \E env \in StatusReports(e) : env.event \in Terminal
        /\ \E i \in DOMAIN out[d] :
               out[d][i].type = "mcp.exec.status.result" /\ out[d][i].execId = e

\* the types the dispatcher knows (mcp/auth is handled by the gate only)
DispatchedTypes == RawTypes \ {"mcp/auth", "MCP/AUTH", "mcp.bogus"}

\* C35: an envelope with an unknown type on a connection that has passed
\* the gate is answered with one mcp/error carrying the request's id; no
\* other connection gets anything, no execution, subscriber set, listener
\* map or auth flag changes, and the connection stays open.
C35_UnknownType ==
    [][\A c \in Conns :
          /\ nreq' = nreq + 1
          /\ lastMsg'.conn = c
          /\ authToken = NoToken \/ authed[c]
          /\ NormalizeType(lastMsg'.type) \notin DispatchedTypes
          => /\ Len(Written(c)) = 1
             /\ Written(c)[1].type = "mcp/error"
             /\ Written(c)[1].id = lastMsg'.id
             /\ \A d \in Conns \ {c} : Written(d) = <<>>
             /\ cstate'[c] = "open"
             /\ UNCHANGED <<nprogress, executions, execSubscribers, handlers, events,
                            cancelOps, cancelCalls, subscriptions, bleOps,
                            bleListeners, bleCalls, nlisten, authed, clients, tools>>]_vars

\* an authenticated connection sent an envelope of an unknown type and got
\* the error with the envelope's id
C35_Witness ==
    \E c \in Conns :
        /\ authToken # NoToken /\ authed[c]
        /\ lastMsg.conn = c /\ lastMsg.type = "mcp.bogus"
        /\ LastOf(out[c]) = ErrorEnv(lastMsg.id, "unsupported_command")
        /\ cstate[c] = "open"

\* C36: in every reachable state an Execution Record carries a cancel
\* capability only if its handler has already resolved: a record whose
\* status is running has none.
C36_CapabilityOnlyAfterResolve ==
    \A e \in DOMAIN executions :
        executions[e].cancelFn =>
            /\ Resolved(e)
            /\ executions[e].status # "running"
            /\ SupportsCancel(executions[e].toolId)

\* a cancel request was refused while the record was running without a
\* capability; the handler resolved afterwards and the record carries one
C36_Witness ==
    \E e \in DOMAIN executions :
        /\ executions[e].cancelFn /\ Resolved(e)
        /\ cancelCalls[e].invoked = 0
        /\ lastMsg.type = "mcp.exec.cancel" /\ lastMsg.payload.execId = e
        /\ \E i \in DOMAIN out[lastMsg.conn] :
               out[lastMsg.conn][i] = ErrorEnv(lastMsg.id, "not_cancellable")

\* C37: in every reachable state every member of every execution's
\* subscriber set is a connection the server holds as open: its close and
\* error handlers have not run.
C37_SubscribersAreOpen ==
    \A e \in DOMAIN execSubscribers : \A c \in execSubscribers[e] :
        /\ c \in clients
        /\ cstate[c] \in {"open", "broken"}

\* the initiator of an execution was torn down and is out of the set, which
\* still holds another connection, one that subscribed and is open
C37_Witness ==
    \E e \in DOMAIN executions : \E c \in Conns : \E d \in Conns \ {c} :
        /\ cstate[c] \in {"errored", "closed"}
        /\ \E i \in DOMAIN out[c] : IsStartedOf(out[c][i], e)
        /\ execSubscribers[e] = {d}
        /\ cstate[d] = "open"

\* connection c has requests that still await the BLE collaborator
InFlight(c) == \E op \in bleOps : op.conn = c

\* C38: whatever the interleaving of a connection's teardown with its
\* mcp.ble.subscribe requests that await the collaborator, once the
\* connection is closed and none of its requests is in flight, no listener
\* is registered with the collaborator on its behalf (other than one whose
\* deregistration the collaborator refused).
C38_NoListenerSurvivesTeardown ==
    \A reg \in bleListeners :
        cstate[reg.conn] = "closed" /\ ~InFlight(reg.conn)
        => \E k \in cleanCalls : k.reg = reg /\ k.failed

\* C39: for every deviceId and characteristicUuid, those containing ':'
\* included, the pair that teardown recovers from a stored listener key and
\* passes to the collaborator's unsubscribe is the pair the listener was
\* registered with.
C39_KeyRoundTrip ==
    [][\A k \in NewCleanCalls :
          \E reg \in bleListeners :
              /\ reg.listener = k.reg.listener
              /\ reg.deviceId = k.reg.deviceId
              /\ reg.characteristicUuid = k.reg.characteristicUuid]_vars

\* the request with this id was received on connection c
Asked(c, id) == lastMsg.conn = c /\ lastMsg.id = id

\* the number of direct responses with this id written to connection c
Answers(c, id) == Cardinality({i \in DOMAIN out[c] : out[c][i].id = id})

\* no request ever gets two direct responses
AtMostOneAnswer == \A c \in Conns : \A id \in 1..MaxReq : Answers(c, id) <= 1

\* C40 as stated: every request received on an open connection eventually
\* gets exactly one direct response with its id on that connection, given
\* that every collaborator call and cancel capability it awaits settles; it
\* never gets two.
C40_EventuallyOneResponse ==
    /\ \A c \in Conns : \A id \in 1..MaxReq : Asked(c, id) ~> (Answers(c, id) = 1)
    /\ []AtMostOneAnswer

\* C40 as the code has it: every request received on an open connection
\* eventually gets exactly one direct response with its id on that
\* connection, given that what it awaits settles and unless the connection
\* is closed before the response is written; it never gets two.
C40_OneResponseUnlessClosed ==
    /\ \A c \in Conns : \A id \in 1..MaxReq :
           Asked(c, id) ~> (Answers(c, id) = 1 \/ cstate[c] # "open")
    /\ []AtMostOneAnswer

\* two requests of an open connection awaited the collaborator, both calls
\* have settled, and each request got its one response
C40_Witness ==
    \E c \in Conns :
        /\ cstate[c] = "open"
        /\ nreq = 2 /\ bleCalls = 2 /\ bleOps = {}
        /\ Answers(c, 1) = 1 /\ Answers(c, 2) = 1

====
